---- MODULE Spec2Model ----
(***************************************************************************)
(* A model of the native host of sk-manager-extension:                     *)
(*   - device.rs : enumeration and the DeviceManager open-device table     *)
(*   - fido2.rs  : CTAPHID channel allocation, the CTAP2 exchange, the     *)
(*                 PIN and credential operations                           *)
(*   - transport.rs : send_hid, receive_hid, transmit_apdu                 *)
(*   - piv.rs    : APDU chaining, TLV, get_piv_data and its activity log   *)
(*                                                                         *)
(* The specifications that share the module:                               *)
(*   Spec      the DeviceManager used by concurrent callers                *)
(*   SpecFrame ctap2_command (fragmentation, reassembly, status)           *)
(*   SpecInit  ctaphid_init (channel allocation)                           *)
(*   SpecCtap  the PIN and credential operations of fido2.rs               *)
(*   SpecTransport  send_hid and transmit_apdu                             *)
(*   SpecList  one list_devices call                                       *)
(*   SpecDetect  detect_protocols of protocol.rs                           *)
(*   SpecMain  the message loop of main.rs                                 *)
(*   SpecChain chained PIV exchanges of concurrent callers on one card     *)
(*   SpecLoop  the GET RESPONSE loop of piv.rs, turn by turn               *)
(*   SpecLocks the mutexes of the DeviceManager, lock by lock              *)
(*   SpecPiv   the PIV client of piv.rs                                    *)
(***************************************************************************)
EXTENDS Integers, Sequences, FiniteSets, TLC

VARIABLES
    hidHw,          \* HID interfaces plugged in (Feitian VID, not keyboard/mouse)
    ccidHw,         \* PC/SC readers plugged in (Feitian reader names)
    open_devices,   \* DeviceManager.open_devices : id -> kind of OpenDevice
    table_lock,     \* holder of the open_devices mutex, or "free"
    lease,          \* per caller: the with_* call whose callback is running
    last,           \* the call that returned last, and what it did
    opened,         \* ids opened with success and not closed with success since
    x_state,        \* ctap2_command: "idle", "sent", "io_error" or "panic"
    x_cid,          \* ctap2_command: cid argument
    x_command,      \* ctap2_command: command argument
    x_data,         \* ctap2_command: data argument
    x_written,      \* ctap2_command: reports handed to the device, in order
    x_reads,        \* ctap2_command: what the device delivers, read by read
    x_result,       \* ctap2_command: the value returned
    x_taken,        \* ctap2_command: how many reads it made
    i_state,        \* ctaphid_init: "idle" or "returned"
    i_nonce,        \* ctaphid_init: the nonce drawn
    i_written,      \* ctaphid_init: reports handed to the device
    i_reply,        \* ctaphid_init: what receive_hid produced
    i_result,       \* ctaphid_init: the value returned
    c_call,         \* fido2.rs operation that returned last, with its arguments
    c_trace,        \* fido2.rs operation: device exchanges and crypto steps, in order
    c_result,       \* fido2.rs operation: the value returned
    t_call,         \* transport.rs: the call that returned last and its argument
    t_io,           \* transport.rs: what reached the device (reports, APDUs)
    t_result,       \* transport.rs: the value returned
    p_call,         \* piv.rs: the call that returned last and what the card answered
    p_wire,         \* piv.rs: the APDUs handed to card.transmit, in order
    p_log,          \* piv.rs: the activity log
    p_result,       \* piv.rs: the value returned
    l_call,         \* list_devices: what the two stacks showed when it was called
    l_result,       \* list_devices: the value returned
    d_call,         \* detect_protocols: device id, table entry and what each exchange did
    d_result,       \* detect_protocols: the value returned
    m_state,        \* main: "loop" while the message loop runs, "exited" after it
    m_stdin,        \* main: whether stdin has reached EOF
    m_last,         \* main: the last turn of the loop, how it went
    m_out,          \* main: the response written to stdout in the last turn, if any
    g_table,        \* concurrent callers: DeviceManager.open_devices, id -> kind
    g_locks,        \* concurrent callers: holder of each of the three mutexes, or "free"
    g_pc,           \* concurrent callers: where each caller is in its call
    g_wire          \* concurrent callers: APDUs transmitted and closes done, in order

dmVars == <<hidHw, ccidHw, open_devices, table_lock, lease, last, opened>>
xVars == <<x_state, x_cid, x_command, x_data, x_written, x_reads, x_result, x_taken>>
iVars == <<i_state, i_nonce, i_written, i_reply, i_result>>
cVars == <<c_call, c_trace, c_result>>
tVars == <<t_call, t_io, t_result>>
pVars == <<p_call, p_wire, p_log, p_result>>
lVars == <<l_call, l_result>>
dVars == <<d_call, d_result>>
mVars == <<m_state, m_stdin, m_last, m_out>>
gVars == <<g_table, g_locks, g_pc, g_wire>>
vars == <<dmVars, xVars, iVars, cVars, tVars, pVars, lVars, dVars, mVars, gVars>>

(***************************************************************************)
(* Bounds of the model.                                                    *)
(***************************************************************************)
MaxHid == 2
MaxCcid == 1

Threads == {"t1", "t2"}

Min(a, b) == IF a < b THEN a ELSE b

RECURSIVE SetToSeq(_)
SetToSeq(S) ==
    IF S = {} THEN <<>>
    ELSE LET m == CHOOSE x \in S : \A y \in S : x <= y
         IN  <<m>> \o SetToSeq(S \ {m})

(***************************************************************************)
(* device.rs: enumeration.                                                 *)
(***************************************************************************)
HidIfs == 1..MaxHid
Readers == 1..MaxCcid

\* The OS path of HID interface i, and the PC/SC name of reader j.  Reader 1
\* is the CCID face of the token behind HID interface 1 and reports the same
\* string (the case list_devices de-duplicates).
HidPath(i) == <<"path", i>>
ReaderName(j) == IF j = 1 THEN HidPath(1) ELSE <<"reader", j>>

HidId(n) == <<"hid", n>>
CcidId(n) == <<"ccid", n>>

DeviceIds == {HidId(n) : n \in HidIfs} \cup {CcidId(n) : n \in Readers}

\* enumerate_hid_devices that gives every device the id of the first.
enumerate_hid_devices_one_id(api_ok, hw) ==
    IF ~api_ok THEN [ok |-> FALSE, devices |-> <<>>]
    ELSE LET s == SetToSeq(hw)
         IN  [ok |-> TRUE,
              devices |-> [k \in 1..Len(s) |->
                  [id |-> HidId(1), device_type |-> "Hid", path |-> HidPath(s[k])]]]

\* enumerate_hid_devices: Err when the HID API cannot be initialised, else
\* one Device per interface, ids numbered from 1 in enumeration order.
enumerate_hid_devices(api_ok, hw) ==
    IF ~api_ok THEN [ok |-> FALSE, devices |-> <<>>]
    ELSE LET s == SetToSeq(hw)
         IN  [ok |-> TRUE,
              devices |-> [k \in 1..Len(s) |->
                  [id |-> HidId(k), device_type |-> "Hid", path |-> HidPath(s[k])]]]

\* enumerate_ccid_devices: Ok(empty) when the PC/SC context or the reader list
\* is not available, else one Device per reader, ids numbered from 1.
enumerate_ccid_devices(ctx_ok, readers_ok, hw) ==
    IF ~ctx_ok \/ ~readers_ok THEN [ok |-> TRUE, devices |-> <<>>]
    ELSE LET s == SetToSeq(hw)
         IN  [ok |-> TRUE,
              devices |-> [k \in 1..Len(s) |->
                  [id |-> CcidId(k), device_type |-> "Ccid", path |-> ReaderName(s[k])]]]

\* list_devices that gives up when the HID stack fails.
list_devices_hid_first(api_ok, ctx_ok, readers_ok, hid, ccid) ==
    IF ~api_ok THEN <<>>
    ELSE LET h == enumerate_hid_devices(api_ok, hid)
             c == enumerate_ccid_devices(ctx_ok, readers_ok, ccid)
             seen_paths == {h.devices[k].path : k \in 1..Len(h.devices)}
             keep(d) == d.path \notin seen_paths
         IN  h.devices \o SelectSeq(c.devices, keep)

\* list_devices: HID devices, then the CCID devices whose path was not seen.
list_devices(api_ok, ctx_ok, readers_ok, hid, ccid) ==
    LET h == enumerate_hid_devices(api_ok, hid)
        c == enumerate_ccid_devices(ctx_ok, readers_ok, ccid)
        hid_devices == IF h.ok THEN h.devices ELSE <<>>
        seen_paths == {hid_devices[k].path : k \in 1..Len(hid_devices)}
        keep(d) == d.path \notin seen_paths
    IN  hid_devices \o (IF c.ok THEN SelectSeq(c.devices, keep) ELSE <<>>)

IdsOf(devs) == {devs[k].id : k \in 1..Len(devs)}

(***************************************************************************)
(* device.rs: DeviceManager.                                               *)
(***************************************************************************)
NoDevice == <<"none", 0>>
NoKind == "None"

KindOf(tbl, id) == IF id \in DOMAIN tbl THEN tbl[id] ELSE NoKind

Insert(tbl, id, kind) == [k \in DOMAIN tbl \cup {id} |-> IF k = id THEN kind ELSE tbl[k]]

Remove(tbl, id) == [k \in DOMAIN tbl \ {id} |-> tbl[k]]

\* open_device that keeps a handle although the OS open failed.
open_device_insert_on_failure(tbl, device_id, devs, path_ok, fallback_ok) ==
    IF device_id \in DOMAIN tbl
    THEN [table |-> tbl, result |-> "AlreadyOpen", enumerated |-> FALSE, os_opens |-> 0]
    ELSE IF device_id \notin IdsOf(devs)
    THEN [table |-> tbl, result |-> "NotFound", enumerated |-> TRUE, os_opens |-> 0]
    ELSE IF path_ok
    THEN [table |-> Insert(tbl, device_id, "Hid"), result |-> "Ok",
          enumerated |-> TRUE, os_opens |-> 1]
    ELSE [table |-> Insert(tbl, device_id, "Hid"), result |-> "OpenFailed",
          enumerated |-> TRUE, os_opens |-> 1]

\* open_device that looks the id up in the table only after enumerating.
open_device_late_check(tbl, device_id, devs, path_ok, fallback_ok) ==
    IF device_id \notin IdsOf(devs)
    THEN [table |-> tbl, result |-> "NotFound", enumerated |-> TRUE, os_opens |-> 0]
    ELSE IF device_id \in DOMAIN tbl
    THEN [table |-> tbl, result |-> "AlreadyOpen", enumerated |-> TRUE, os_opens |-> 0]
    ELSE IF path_ok
    THEN [table |-> Insert(tbl, device_id, "Hid"), result |-> "Ok",
          enumerated |-> TRUE, os_opens |-> 1]
    ELSE [table |-> tbl, result |-> "OpenFailed", enumerated |-> TRUE, os_opens |-> 1]

\* open_device, after the table lock is taken.  devs is what list_devices
\* returns when it is called; path_ok/fallback_ok are the outcomes of
\* open_path and open(vid, pid) for HID, path_ok of connect for CCID.
open_device(tbl, device_id, devs, path_ok, fallback_ok) ==
    IF device_id \in DOMAIN tbl
    THEN [table |-> tbl, result |-> "AlreadyOpen", enumerated |-> FALSE, os_opens |-> 0]
    ELSE LET found == {k \in 1..Len(devs) : devs[k].id = device_id}
         IN  IF found = {}
             THEN [table |-> tbl, result |-> "NotFound", enumerated |-> TRUE, os_opens |-> 0]
             ELSE LET device == devs[CHOOSE k \in found : \A m \in found : k <= m]
                  IN  IF device.device_type = "Hid"
                      THEN IF path_ok
                           THEN [table |-> Insert(tbl, device_id, "Hid"), result |-> "Ok",
                                 enumerated |-> TRUE, os_opens |-> 1]
                           ELSE IF fallback_ok
                           THEN [table |-> Insert(tbl, device_id, "Hid"), result |-> "Ok",
                                 enumerated |-> TRUE, os_opens |-> 2]
                           ELSE [table |-> tbl, result |-> "OpenFailed",
                                 enumerated |-> TRUE, os_opens |-> 2]
                      ELSE IF path_ok
                           THEN [table |-> Insert(tbl, device_id, "Ccid"), result |-> "Ok",
                                 enumerated |-> TRUE, os_opens |-> 1]
                           ELSE [table |-> tbl, result |-> "OpenFailed",
                                 enumerated |-> TRUE, os_opens |-> 1]

\* close_device that reports success without looking at the table.
close_device_no_check(tbl, device_id) ==
    [table |-> Remove(tbl, device_id), result |-> "Ok"]

\* close_device, after the table lock is taken.
close_device(tbl, device_id) ==
    IF device_id \notin DOMAIN tbl
    THEN [table |-> tbl, result |-> "NotOpen"]
    ELSE [table |-> Remove(tbl, device_id), result |-> "Ok"]

\* with_hid_device that hands any open entry to f.
with_hid_device_any_kind(tbl, device_id) ==
    IF device_id \in DOMAIN tbl THEN "call" ELSE "NotOpen"

\* The match of with_hid_device: "call" stands for f(device).
with_hid_device(tbl, device_id) ==
    CASE KindOf(tbl, device_id) = "Hid" -> "call"
      [] KindOf(tbl, device_id) = "Ccid" -> "WrongKind"
      [] OTHER -> "NotOpen"

\* The match of with_ccid_card.
with_ccid_card(tbl, device_id) ==
    CASE KindOf(tbl, device_id) = "Ccid" -> "call"
      [] KindOf(tbl, device_id) = "Hid" -> "WrongKind"
      [] OTHER -> "NotOpen"

\* The table a caller may find for device_id: no entry, a HID handle or a
\* CCID card.
ProbeTables(device_id) ==
    {<<>>, Insert(<<>>, device_id, "Hid"), Insert(<<>>, device_id, "Ccid")}

\* A lock() that never waits.
LockNeverWaits == TRUE

\* self.open_devices.lock(): the caller goes on only when no one holds it.
LockFree == table_lock = "free"

NoLease == [op |-> "none", id |-> NoDevice]

Idle(t) == lease[t] = NoLease

\* What a returned call did: kind of the id's entry before and after, whether
\* another id's entry changed, whether devices were enumerated, how many OS
\* opens were tried, whether the callback ran, and whether an entry was left
\* for an id the enumeration of this call did not list.
Call(op, id, tbl, tbl2, result, enumerated, os_opens, called_f, stale) ==
    [op |-> op, id |-> id,
     before |-> KindOf(tbl, id), after |-> KindOf(tbl2, id),
     others_changed |-> \E k \in DeviceIds \ {id} : KindOf(tbl, k) # KindOf(tbl2, k),
     result |-> result, enumerated |-> enumerated, os_opens |-> os_opens,
     called_f |-> called_f,
     stale |-> stale]

NoCall ==
    [op |-> "none", id |-> NoDevice, before |-> NoKind, after |-> NoKind,
     others_changed |-> FALSE, result |-> "Ok", enumerated |-> FALSE, os_opens |-> 0,
     called_f |-> FALSE, stale |-> FALSE]

DmInit ==
    /\ hidHw = {}
    /\ ccidHw = {}
    /\ open_devices = <<>>
    /\ table_lock = "free"
    /\ lease = [t \in Threads |-> NoLease]
    /\ last = NoCall
    /\ opened = {}

\* The user plugs or unplugs a token.
Hotplug ==
    /\ \/ \E i \in HidIfs \ hidHw : hidHw' = hidHw \cup {i} /\ ccidHw' = ccidHw
       \/ \E i \in hidHw : hidHw' = hidHw \ {i} /\ ccidHw' = ccidHw
       \/ \E j \in Readers \ ccidHw : ccidHw' = ccidHw \cup {j} /\ hidHw' = hidHw
       \/ \E j \in ccidHw : ccidHw' = ccidHw \ {j} /\ hidHw' = hidHw
    /\ UNCHANGED <<open_devices, table_lock, lease, last, opened, xVars, iVars, cVars, tVars, pVars, lVars, dVars, mVars, gVars>>

\* Whether a call that enumerated devs leaves an entry for an id not in devs.
Stale(tbl, devs) == (DOMAIN tbl \ IdsOf(devs)) # {}

\* What list_devices() may return for the hardware as it is now: each of the
\* two stacks may be up or down.
Enumerations ==
    {list_devices(api_ok, ctx_ok, readers_ok, hidHw, ccidHw) :
        api_ok \in BOOLEAN, ctx_ok \in BOOLEAN, readers_ok \in BOOLEAN}

\* handle_list_devices -> list_devices(); the table lock is not taken.
ListDevices ==
    /\ \E c \in {Call("list", NoDevice, open_devices, open_devices, "Ok", TRUE, 0, FALSE,
                       Stale(open_devices, devs)) : devs \in Enumerations} :
          last' = c
    /\ UNCHANGED <<hidHw, ccidHw, open_devices, table_lock, lease, opened, xVars, iVars, cVars, tVars, pVars, lVars, dVars, mVars, gVars>>

\* The outcomes of open_device(id) when list_devices() returns one of enums:
\* the table it leaves and what it did.
OpenOutcomes(id, enums) ==
    {LET r == open_device(open_devices, id, devs, path_ok, fallback_ok)
     IN  [table |-> r.table,
          call |-> Call("open", id, open_devices, r.table, r.result, r.enumerated,
                        r.os_opens, FALSE, r.enumerated /\ Stale(r.table, devs))] :
        devs \in enums, path_ok \in BOOLEAN, fallback_ok \in BOOLEAN}

OpenDevice(id) ==
    /\ \E t \in Threads : Idle(t)
    /\ LockFree
    /\ \E o \in OpenOutcomes(id, Enumerations) :
          /\ open_devices' = o.table
          /\ last' = o.call
          /\ opened' = IF o.call.result = "Ok" THEN opened \cup {id} ELSE opened
    /\ UNCHANGED <<hidHw, ccidHw, table_lock, lease, xVars, iVars, cVars, tVars, pVars, lVars, dVars, mVars, gVars>>

CloseDevice(id) ==
    /\ \E t \in Threads : Idle(t)
    /\ LockFree
    /\ LET r == close_device(open_devices, id)
       IN  /\ open_devices' = r.table
           /\ last' = Call("close", id, open_devices, r.table, r.result,
                           FALSE, 0, FALSE, FALSE)
           /\ opened' = IF r.result = "Ok" THEN opened \ {id} ELSE opened
    /\ UNCHANGED <<hidHw, ccidHw, table_lock, lease, xVars, iVars, cVars, tVars, pVars, lVars, dVars, mVars, gVars>>

\* with_hid_device up to the call of f, or to its error return.
WithHidDevice(t, id) ==
    /\ Idle(t)
    /\ LockFree
    /\ LET m == with_hid_device(open_devices, id)
       IN  IF m = "call"
           THEN /\ table_lock' = t
                /\ lease' = [lease EXCEPT ![t] = [op |-> "with_hid", id |-> id]]
                /\ UNCHANGED last
           ELSE /\ last' = Call("with_hid", id, open_devices, open_devices, m,
                                FALSE, 0, FALSE, FALSE)
                /\ UNCHANGED <<table_lock, lease>>
    /\ UNCHANGED <<hidHw, ccidHw, open_devices, opened, xVars, iVars, cVars, tVars, pVars, lVars, dVars, mVars, gVars>>

\* with_ccid_card up to the call of f, or to its error return.
WithCcidCard(t, id) ==
    /\ Idle(t)
    /\ LockFree
    /\ LET m == with_ccid_card(open_devices, id)
       IN  IF m = "call"
           THEN /\ table_lock' = t
                /\ lease' = [lease EXCEPT ![t] = [op |-> "with_ccid", id |-> id]]
                /\ UNCHANGED last
           ELSE /\ last' = Call("with_ccid", id, open_devices, open_devices, m,
                                FALSE, 0, FALSE, FALSE)
                /\ UNCHANGED <<table_lock, lease>>
    /\ UNCHANGED <<hidHw, ccidHw, open_devices, opened, xVars, iVars, cVars, tVars, pVars, lVars, dVars, mVars, gVars>>

\* f returns (Ok or Err); with_* returns f's result and the guard is dropped.
CallbackReturn(t) ==
    /\ ~Idle(t)
    /\ \E res \in {"Ok", "CallbackErr"} :
          last' = Call(lease[t].op, lease[t].id, open_devices, open_devices, res,
                       FALSE, 0, TRUE, FALSE)
    /\ lease' = [lease EXCEPT ![t] = NoLease]
    /\ table_lock' = "free"
    /\ UNCHANGED <<hidHw, ccidHw, open_devices, opened, xVars, iVars, cVars, tVars, pVars, lVars, dVars, mVars, gVars>>

\* Values ctap2_command produces: Ok(body), Err(anyhow!(..)) with the code the
\* message carries, or a panic of the closure.
Returned(body) == [kind |-> "ok", err |-> "none", code |-> 0, body |-> body]
Failed(err, code) == [kind |-> "err", err |-> err, code |-> code, body |-> <<>>]
Panicked == [kind |-> "panic", err |-> "none", code |-> 0, body |-> <<>>]
NotReturned == [kind |-> "none", err |-> "none", code |-> 0, body |-> <<>>]

XInit ==
    /\ x_state = "idle"
    /\ x_cid = <<>>
    /\ x_command = 0
    /\ x_data = <<>>
    /\ x_written = <<>>
    /\ x_reads = <<>>
    /\ x_result = NotReturned
    /\ x_taken = 0

IInit ==
    /\ i_state = "idle"
    /\ i_nonce = <<>>
    /\ i_written = <<>>
    /\ i_reply = [kind |-> "none", bytes |-> <<>>]
    /\ i_result = [ok |-> FALSE, err |-> "none", cid |-> <<>>]

CInit ==
    /\ c_call = [op |-> "none"]
    /\ c_trace = <<>>
    /\ c_result = NotReturned

TInit ==
    /\ t_call = [op |-> "none", arg |-> <<>>]
    /\ t_io = <<>>
    /\ t_result = [ok |-> TRUE, err |-> "none", value |-> <<>>]

PInit ==
    /\ p_call = [op |-> "none"]
    /\ p_wire = <<>>
    /\ p_log = <<>>
    /\ p_result = [ok |-> TRUE]

NoList == [op |-> "none"]

LInit ==
    /\ l_call = NoList
    /\ l_result = [ok |-> TRUE, devices |-> <<>>]

NoProbe == [op |-> "none"]

DInit ==
    /\ d_call = NoProbe
    /\ d_result = [ok |-> TRUE]

NoTurn == [step |-> "none"]

MInit ==
    /\ m_state = "loop"
    /\ m_stdin = "open"
    /\ m_last = NoTurn
    /\ m_out = <<>>

\* No caller is inside a call, no mutex is held, nothing is open.
Mutexes == {"open_devices", "hid_api", "pcsc_context"}
AtRest == [at |-> "idle"]

GInit ==
    /\ g_table = <<>>
    /\ g_locks = [l \in Mutexes |-> "free"]
    /\ g_pc = [t \in Threads |-> AtRest]
    /\ g_wire = <<>>

Init == DmInit /\ XInit /\ IInit /\ CInit /\ TInit /\ PInit /\ LInit /\ DInit /\ MInit /\ GInit

Next ==
    \/ Hotplug
    \/ ListDevices
    \/ \E id \in DeviceIds : OpenDevice(id)
    \/ \E id \in DeviceIds : CloseDevice(id)
    \/ \E t \in Threads, id \in DeviceIds : WithHidDevice(t, id)
    \/ \E t \in Threads, id \in DeviceIds : WithCcidCard(t, id)
    \/ \E t \in Threads : CallbackReturn(t)

Spec == Init /\ [][Next]_vars

(***************************************************************************)
(* transport.rs: send_hid.                                                 *)
(***************************************************************************)
HID_REPORT_LEN == 64

Zeros(n) == [k \in 1..n |-> 0]

\* send_hid that writes the data as given, unpadded.
send_hid_unpadded(data) ==
    IF Len(data) > HID_REPORT_LEN
    THEN [ok |-> FALSE, report |-> <<>>]
    ELSE [ok |-> TRUE, report |-> data]

\* send_hid: the report handed to device.write, or PacketTooLarge.
send_hid(data) ==
    IF Len(data) > HID_REPORT_LEN
    THEN [ok |-> FALSE, report |-> <<>>]
    ELSE [ok |-> TRUE, report |-> data \o Zeros(HID_REPORT_LEN - Len(data))]

\* receive_hid: Err on a read failure, Err on a read of zero octets, else the
\* buffer truncated to the octets read.
receive_hid(read_ok, bytes) ==
    IF ~read_ok THEN [kind |-> "io_error", bytes |-> <<>>]
    ELSE IF Len(bytes) = 0 THEN [kind |-> "timeout", bytes |-> <<>>]
    ELSE [kind |-> "data", bytes |-> bytes]

(***************************************************************************)
(* fido2.rs: the request half of ctap2_command (the closure run on the     *)
(* leased HID handle).                                                     *)
(***************************************************************************)
CTAPHID_CBOR == 16
CTAPHID_INIT == 6
TYPE_INIT == 128

\* The while loop that sends continuation packets: the packets it builds,
\* from `sent` octets of data already sent and sequence number seq.
RECURSIVE continuation_packets(_, _, _, _)
continuation_packets(cid, data, sent, seq) ==
    IF ~(sent < Len(data)) THEN <<>>
    ELSE LET chunk_len == Min(Len(data) - sent, 59)
             cont_packet == cid \o <<seq>> \o SubSeq(data, sent + 1, sent + chunk_len)
                                \o Zeros(HID_REPORT_LEN - 5 - chunk_len)
         IN  <<cont_packet>> \o continuation_packets(cid, data, sent + chunk_len, seq + 1)

\* The initialization packet takes min(|data|, 57) octets of data at offset 8.
first_chunk_len(data) == Min(Len(data), 57)

\* The packets ctap2_command builds for a request, in order.  The slice
\* packet[8..8 + first_chunk_len] of the 64-octet array is out of range when
\* first_chunk_len = 57: the copy panics before anything is sent.
request_packets(cid, command, data) ==
    LET payload_len == 1 + Len(data)
        n == first_chunk_len(data)
        header == cid \o <<CTAPHID_CBOR + TYPE_INIT,
                           (payload_len \div 256) % 256,
                           payload_len % 256,
                           command>>
    IN  IF 8 + n > HID_REPORT_LEN
        THEN [panic |-> TRUE, packets |-> <<>>]
        ELSE [panic |-> FALSE,
              packets |-> <<header \o SubSeq(data, 1, n) \o Zeros(HID_REPORT_LEN - 8 - n)>>
                          \o continuation_packets(cid, data, n, 0)]

(***************************************************************************)
(* fido2.rs: the response half of ctap2_command.                           *)
(***************************************************************************)
CTAPHID_KEEPALIVE == 59
CTAPHID_ERROR == 63
CTAP2_OK == 0

\* The k-th receive_hid of the call: reads is what the device delivers, read
\* by read; once it delivers nothing more, read_timeout returns 0 octets.
ReadAt(reads, k) ==
    IF k <= Len(reads) THEN receive_hid(reads[k].read_ok, reads[k].bytes)
    ELSE receive_hid(TRUE, <<>>)

ReadError(got) == Failed(IF got.kind = "timeout" THEN "Timeout" ELSE "IoError", 0)

\* The status check without the check: the payload is returned as it is.
status_check_skipped(response_data) ==
    IF response_data = <<>> THEN Failed("EmptyResponse", 0)
    ELSE Returned(response_data)

\* The end of ctap2_command: the first octet of the payload is the CTAP2
\* status, the rest is the body.
status_check(response_data) ==
    IF response_data = <<>> THEN Failed("EmptyResponse", 0)
    ELSE IF response_data[1] # CTAP2_OK THEN Failed("Ctap2Error", response_data[1])
    ELSE Returned(Tail(response_data))

\* The while loop without the test of the CID.
RECURSIVE receive_continuations_any_cid(_, _, _, _, _, _, _)
receive_continuations_any_cid(cid, reads, k, data_len, received, expected_seq, response_data) ==
    IF ~(received < data_len) THEN status_check(response_data)
    ELSE LET got == ReadAt(reads, k)
             cont_response == got.bytes
             chunk_len == Min(data_len - received, 59)
         IN  IF got.kind # "data" THEN ReadError(got)
             ELSE IF Len(cont_response) < 5 THEN Failed("ContinuationTooShort", 0)
             ELSE IF cont_response[5] # expected_seq THEN Failed("SequenceMismatch", 0)
             ELSE IF 5 + chunk_len > Len(cont_response) THEN Panicked
             ELSE receive_continuations_any_cid(cid, reads, k + 1, data_len,
                      received + chunk_len, expected_seq + 1,
                      response_data \o SubSeq(cont_response, 6, 5 + chunk_len))

\* The while loop that receives continuation packets, from read k on.  The
\* slice cont_response[5..5 + chunk_len] panics on a report that is shorter.
\* (expected_seq is a u8: it stays below 256 for every length modelled.)
RECURSIVE receive_continuations(_, _, _, _, _, _, _)
receive_continuations(cid, reads, k, data_len, received, expected_seq, response_data) ==
    IF ~(received < data_len) THEN status_check(response_data)
    ELSE LET got == ReadAt(reads, k)
             cont_response == got.bytes
             chunk_len == Min(data_len - received, 59)
         IN  IF got.kind # "data" THEN ReadError(got)
             ELSE IF Len(cont_response) < 5 THEN Failed("ContinuationTooShort", 0)
             ELSE IF SubSeq(cont_response, 1, 4) # cid THEN Failed("CidMismatch", 0)
             ELSE IF cont_response[5] # expected_seq THEN Failed("SequenceMismatch", 0)
             ELSE IF 5 + chunk_len > Len(cont_response) THEN Panicked
             ELSE receive_continuations(cid, reads, k + 1, data_len,
                      received + chunk_len, expected_seq + 1,
                      response_data \o SubSeq(cont_response, 6, 5 + chunk_len))

\* ctap2_command from the first receive_hid on.  After a KEEPALIVE the packet
\* read next is bound to a `response` local to the if block: the length and the
\* first octets are taken from the packet read first.
receive_response(cid, reads) ==
    LET got == ReadAt(reads, 1)
        response == got.bytes
    IN  IF got.kind # "data" THEN ReadError(got)
        ELSE IF Len(response) < 7 THEN Failed("ResponseTooShort", 0)
        ELSE IF response[5] = CTAPHID_ERROR
        THEN IF Len(response) < 8 THEN Panicked
             ELSE Failed("CtaphidError", response[8])
        ELSE LET keepalive == response[5] = CTAPHID_KEEPALIVE
                 again == ReadAt(reads, 2)
                 data_len == response[6] * 256 + response[7]
                 initial_data_len == Min(data_len, 57)
             IN  IF keepalive /\ again.kind # "data" THEN ReadError(again)
                 ELSE IF keepalive /\ Len(again.bytes) < 7
                 THEN Failed("ResponseTooShortAfterKeepalive", 0)
                 ELSE IF 7 + initial_data_len > Len(response) THEN Panicked
                 ELSE receive_continuations(cid, reads, IF keepalive THEN 3 ELSE 2,
                          data_len, initial_data_len, 0,
                          SubSeq(response, 8, 7 + initial_data_len))

\* The number of the last receive_hid call of the while loop that starts
\* with read k: every turn of the loop makes one call, and the loop ends with
\* the announced length or with the first return.
RECURSIVE continuation_reads(_, _, _, _, _, _)
continuation_reads(cid, reads, k, data_len, received, expected_seq) ==
    IF ~(received < data_len) THEN k - 1
    ELSE LET got == ReadAt(reads, k)
             cont_response == got.bytes
             chunk_len == Min(data_len - received, 59)
         IN  IF \/ got.kind # "data"
                \/ Len(cont_response) < 5
                \/ SubSeq(cont_response, 1, 4) # cid
                \/ cont_response[5] # expected_seq
                \/ 5 + chunk_len > Len(cont_response)
             THEN k
             ELSE continuation_reads(cid, reads, k + 1, data_len,
                      received + chunk_len, expected_seq + 1)

\* The receive_hid calls ctap2_command makes: one, one more after a
\* KEEPALIVE, then those of the while loop.
reads_taken(cid, reads) ==
    LET got == ReadAt(reads, 1)
        response == got.bytes
    IN  IF got.kind # "data" \/ Len(response) < 7 \/ response[5] = CTAPHID_ERROR THEN 1
        ELSE LET keepalive == response[5] = CTAPHID_KEEPALIVE
                 again == ReadAt(reads, 2)
                 data_len == response[6] * 256 + response[7]
                 initial_data_len == Min(data_len, 57)
                 first == IF keepalive THEN 2 ELSE 1
             IN  IF keepalive /\ (again.kind # "data" \/ Len(again.bytes) < 7) THEN 2
                 ELSE IF 7 + initial_data_len > Len(response) THEN first
                 ELSE continuation_reads(cid, reads, first + 1, data_len,
                          initial_data_len, 0)

\* Request bytes of length n: octet k is p * k mod 256.
RequestBytes(n, p) == [k \in 1..n |-> (p * k) % 256]

MaxDataLen == 120

Patterns == {1, 3}
Commands == {4, 6, 10}
Cids == {<<1, 2, 3, 4>>}

\* ---- what the authenticator sends back ----
\* Most continuation packets in a response of the model.
MaxConts == 2

\* Payload lengths around the packet boundaries: 57 octets fill the
\* initialization packet, every 59 more a continuation packet.
ResponseLens ==
    {0, 1, 2} \cup {57 + 59 * (c - 1) + d : c \in 1..MaxConts, d \in {0, 1}}

\* CTAP2 status octets a reply starts with: success, PIN_INVALID.
Statuses == {0, 49}

\* A payload of n octets: the status, then octets 7k mod 256.
ResponsePayload(status, n) == [k \in 1..n |-> IF k = 1 THEN status ELSE (7 * k) % 256]

RECURSIVE DeviceContinuations(_, _, _, _)
DeviceContinuations(cid, payload, from, seq) ==
    IF from > Len(payload) THEN <<>>
    ELSE LET n == Min(Len(payload) - from + 1, 59)
         IN  <<cid \o <<seq>> \o SubSeq(payload, from, from + n - 1) \o Zeros(59 - n)>>
                 \o DeviceContinuations(cid, payload, from + n, seq + 1)

\* The reports of a response message as a conforming authenticator frames it.
DeviceFrames(cid, cmd, payload) ==
    LET n == Min(Len(payload), 57)
    IN  <<cid \o <<cmd, Len(payload) \div 256, Len(payload) % 256>>
              \o SubSeq(payload, 1, n) \o Zeros(57 - n)>>
            \o DeviceContinuations(cid, payload, n + 1, 0)

Delivered(frames) == [k \in 1..Len(frames) |-> [read_ok |-> TRUE, bytes |-> frames[k]]]

ResponseVariants ==
    {"good", "keepalive", "error", "bad_cid", "bad_seq", "short", "lost", "io_error",
     "early_bad_cid", "early_bad_seq", "short_error"}

\* What the reads of one exchange deliver.
DeviceResponse(cid, variant, status, n) ==
    LET frames == DeviceFrames(cid, CTAPHID_CBOR + TYPE_INIT, ResponsePayload(status, n))
        good == Delivered(frames)
        last_k == Len(frames)
    IN  CASE variant = "good" -> good
          [] variant = "keepalive" ->
                Delivered(<<cid \o <<CTAPHID_KEEPALIVE, 0, 1, 2>> \o Zeros(56)>>) \o good
          [] variant = "error" ->
                Delivered(<<cid \o <<CTAPHID_ERROR, 0, 1, status>> \o Zeros(56)>>)
          [] variant = "bad_cid" ->
                [good EXCEPT ![last_k].bytes[1] = 9]
          [] variant = "bad_seq" ->
                [good EXCEPT ![last_k].bytes[5] = 7]
          [] variant = "short" ->
                [good EXCEPT ![last_k].bytes = SubSeq(frames[last_k], 1, 7)]
          [] variant = "lost" -> SubSeq(good, 1, last_k - 1)
          [] variant = "io_error" ->
                [good EXCEPT ![last_k].read_ok = FALSE]
          [] variant = "early_bad_cid" ->
                IF last_k >= 3 THEN [good EXCEPT ![2].bytes[1] = 9] ELSE good
          [] variant = "early_bad_seq" ->
                IF last_k >= 3 THEN [good EXCEPT ![2].bytes[5] = 7] ELSE good
          [] variant = "short_error" ->
                Delivered(<<cid \o <<CTAPHID_ERROR, 0, 1>>>>)

Responses(cid) ==
    {DeviceResponse(cid, variant, status, n) :
        variant \in ResponseVariants, status \in Statuses, n \in ResponseLens}

\* ctap2_command: fail_at = 0 when every device.write succeeds, else the
\* number of the write that fails; reads is what the device delivers after
\* the request.
Ctap2Command ==
    /\ x_state = "idle"
    /\ \E cid \in Cids, command \in Commands, n \in 0..MaxDataLen, p \in Patterns,
          fail_at \in 0..2 :
          LET data == RequestBytes(n, p)
              r == request_packets(cid, command, data)
              reports == [k \in 1..Len(r.packets) |-> send_hid(r.packets[k]).report]
              answered == ~r.panic /\ fail_at = 0
          IN  /\ fail_at <= Len(r.packets)
              /\ x_cid' = cid
              /\ x_command' = command
              /\ x_data' = data
              /\ x_written' = IF fail_at = 0 THEN reports ELSE SubSeq(reports, 1, fail_at)
              /\ x_state' = IF r.panic THEN "panic"
                            ELSE IF fail_at # 0 THEN "io_error" ELSE "sent"
              /\ \E reads \in IF answered THEN Responses(cid) ELSE {<<>>} :
                    /\ x_reads' = reads
                    /\ x_result' = IF r.panic THEN Panicked
                                   ELSE IF fail_at # 0 THEN Failed("IoError", 0)
                                   ELSE receive_response(cid, reads)
                    /\ x_taken' = IF answered THEN reads_taken(cid, reads) ELSE 0
    /\ UNCHANGED <<dmVars, iVars, cVars, tVars, pVars, lVars, dVars, mVars, gVars>>

\* The call is over: its locals are dropped.
ExchangeOver ==
    /\ x_state # "idle"
    /\ x_state' = "idle"
    /\ x_cid' = <<>>
    /\ x_command' = 0
    /\ x_data' = <<>>
    /\ x_written' = <<>>
    /\ x_reads' = <<>>
    /\ x_result' = NotReturned
    /\ x_taken' = 0
    /\ UNCHANGED <<dmVars, iVars, cVars, tVars, pVars, lVars, dVars, mVars, gVars>>

NextFrame == Ctap2Command \/ ExchangeOver

SpecFrame == Init /\ [][NextFrame]_vars


(***************************************************************************)
(* fido2.rs: ctaphid_init.                                                 *)
(***************************************************************************)
NONCE_LEN == 8

\* The INIT packet: broadcast CID, INIT|0x80, BCNT = 8, the nonce.
init_packet(nonce) ==
    <<255, 255, 255, 255, CTAPHID_INIT + TYPE_INIT, 0, NONCE_LEN>> \o nonce
        \o Zeros(HID_REPORT_LEN - 7 - NONCE_LEN)

\* ctaphid_init checking the echo where the INIT packet carries the nonce.
init_reply_check_at_7(nonce, init_response) ==
    IF Len(init_response) >= 19
    THEN IF SubSeq(init_response, 8, 15) # nonce
         THEN [ok |-> FALSE, err |-> "NonceMismatch", cid |-> <<>>]
         ELSE [ok |-> TRUE, err |-> "none", cid |-> SubSeq(init_response, 16, 19)]
    ELSE [ok |-> FALSE, err |-> "InvalidInit", cid |-> <<>>]

\* The checks of ctaphid_init on the reply: init_response[8..16] against the
\* nonce, the channel id from init_response[15..19] (offsets from 0).
init_reply_check(nonce, init_response) ==
    IF Len(init_response) >= 19
    THEN IF SubSeq(init_response, 9, 16) # nonce
         THEN [ok |-> FALSE, err |-> "NonceMismatch", cid |-> <<>>]
         ELSE [ok |-> TRUE, err |-> "none", cid |-> SubSeq(init_response, 16, 19)]
    ELSE [ok |-> FALSE, err |-> "InvalidInit", cid |-> <<>>]

\* ctaphid_init: the reports written, what was received, the value returned.
\* kind is the table entry of device_id; write_ok, read_ok and bytes are what
\* the device does.
ctaphid_init(kind, nonce, write_ok, read_ok, bytes) ==
    LET tbl == IF kind = NoKind THEN <<>> ELSE Insert(<<>>, HidId(1), kind)
        m == with_hid_device(tbl, HidId(1))
        sent == send_hid(init_packet(nonce))
        got == receive_hid(read_ok, bytes)
        none == [kind |-> "none", bytes |-> <<>>]
    IN  IF m # "call"
        THEN [written |-> <<>>, reply |-> none,
              result |-> [ok |-> FALSE, err |-> m, cid |-> <<>>]]
        ELSE IF ~sent.ok \/ ~write_ok
        THEN [written |-> IF sent.ok THEN <<sent.report>> ELSE <<>>, reply |-> none,
              result |-> [ok |-> FALSE, err |-> "io_error", cid |-> <<>>]]
        ELSE IF got.kind # "data"
        THEN [written |-> <<sent.report>>, reply |-> got,
              result |-> [ok |-> FALSE, err |-> got.kind, cid |-> <<>>]]
        ELSE [written |-> <<sent.report>>, reply |-> got,
              result |-> init_reply_check(nonce, got.bytes)]

\* Values a nonce octet takes in the model.
NonceValues == 2

NonceOctets == {17 * v : v \in 1..NonceValues}

\* rand::random(): here the nonces a, .., a, b, .., b.
Nonces ==
    {[k \in 1..NONCE_LEN |-> IF k <= j THEN a ELSE b] :
        j \in 0..NONCE_LEN, a \in NonceOctets, b \in NonceOctets}

NewCid == <<193, 194, 195, 196>>

\* A reply of the device: header, the nonce echoed from offset echo_at, then
\* the new channel id (its last octets when the echo covers offset 15), with
\* the octet at position bad, if any, changed, cut to len octets.
DeviceReply(nonce, echo_at, bad, len) ==
    LET head == <<255, 255, 255, 255, CTAPHID_INIT + TYPE_INIT, 0, 17>>
        body == head \o Zeros(echo_at - 7) \o nonce
                     \o SubSeq(NewCid, echo_at - 6, 4) \o <<2, 1, 0, 0, 1>>
        full == body \o Zeros(HID_REPORT_LEN - Len(body))
    IN  [k \in 1..len |-> IF k = bad THEN (full[k] + 1) % 256 ELSE full[k]]

AllocateChannel ==
    /\ i_state = "idle"
    /\ \E nonce \in Nonces, kind \in {"Hid", "Ccid", NoKind},
          write_ok \in BOOLEAN, read_ok \in BOOLEAN,
          echo_at \in {7, 8}, bad \in {0} \cup 8..20, len \in 0..HID_REPORT_LEN :
          LET r == ctaphid_init(kind, nonce, write_ok, read_ok,
                                DeviceReply(nonce, echo_at, bad, len))
          IN  /\ i_nonce' = nonce
              /\ i_written' = r.written
              /\ i_reply' = r.reply
              /\ i_result' = r.result
    /\ i_state' = "returned"
    /\ UNCHANGED <<dmVars, xVars, cVars, tVars, pVars, lVars, dVars, mVars, gVars>>

\* The call is over: its locals are dropped.
AllocateOver ==
    /\ i_state = "returned"
    /\ i_state' = "idle"
    /\ i_nonce' = <<>>
    /\ i_written' = <<>>
    /\ i_reply' = [kind |-> "none", bytes |-> <<>>]
    /\ i_result' = [ok |-> FALSE, err |-> "none", cid |-> <<>>]
    /\ UNCHANGED <<dmVars, xVars, cVars, tVars, pVars, lVars, dVars, mVars, gVars>>

NextInit == AllocateChannel \/ AllocateOver

SpecInit == Init /\ [][NextInit]_vars

(***************************************************************************)
(* fido2.rs: the PIN and credential-management operations.  Each is a      *)
(* sequence of device exchanges (ctaphid_init, then ctap2_command calls)   *)
(* and local crypto steps.  An exchange is taken by the value it returns:  *)
(* Ok with a well-formed reply, Err with a CTAP2 status, or Err from the   *)
(* transport; SpecFrame and SpecInit cover the exchanges themselves.       *)
(***************************************************************************)
\* Answers of the device to one exchange: 0 is success, -1 a transport
\* failure (write or read error, timeout), 49..54 the CTAP2 PIN statuses
\* 0x31..0x36.
PinStatuses == 49..54
Failures == {-1} \cup PinStatuses

\* What the device does during one operation: every exchange succeeds but
\* exchange number fail_at (none for 0), which gets `answer`.
AnswerAt(script, k) == IF script.fail_at = k THEN script.answer ELSE 0

Exchange(name, answer) == [ev |-> name, kind |-> "io", answer |-> answer]
Crypto(name) == [ev |-> name, kind |-> "crypto", answer |-> 0]

\* The Err a failed exchange returns: ctap2_command's 'CTAP2 error: 0x..'
\* or a transport error.
ErrOf(answer) ==
    IF answer = -1 THEN Failed("IoError", 0) ELSE Failed("Ctap2Error", answer)

\* The length check with the lower limit only.
pin_length_check_min_only(new_pin_len) ==
    IF new_pin_len < 4 THEN "PinTooShort" ELSE "ok"

\* The first statements of set_pin and change_pin.
pin_length_check(new_pin_len) ==
    IF new_pin_len < 4 THEN "PinTooShort"
    ELSE IF new_pin_len > 63 THEN "PinTooLong"
    ELSE "ok"

\* One ctap2_command (or ctaphid_init) as exchange number k, then `rest` when
\* it returned Ok and the error with `?` otherwise.  rest is a record
\* [trace, result].
Try(name, script, k, rest) ==
    LET a == AnswerAt(script, k)
    IN  IF a # 0
        THEN [trace |-> <<Exchange(name, a)>>, result |-> ErrOf(a)]
        ELSE [trace |-> <<Exchange(name, a)>> \o rest.trace, result |-> rest.result]

Steps(events, rest) == [trace |-> events \o rest.trace, result |-> rest.result]
Return(result) == [trace |-> <<>>, result |-> result]

\* set_pin: length checks, INIT, getKeyAgreement, ECDH, PIN encryption,
\* pinAuth, setPIN.
set_pin(new_pin_len, script) ==
    IF pin_length_check(new_pin_len) # "ok"
    THEN Return(Failed(pin_length_check(new_pin_len), 0))
    ELSE Try("INIT", script, 1,
         Try("GET_KEY_AGREEMENT", script, 2,
         Steps(<<Crypto("compute_shared_secret"), Crypto("encrypt_pin"),
                 Crypto("compute_pin_auth")>>,
         Try("SET_PIN", script, 3, Return(Returned(<<>>))))))

\* change_pin: the same with the hash of the current PIN encrypted too.
change_pin(current_pin_len, new_pin_len, script) ==
    IF pin_length_check(new_pin_len) # "ok"
    THEN Return(Failed(pin_length_check(new_pin_len), 0))
    ELSE Try("INIT", script, 1,
         Try("GET_KEY_AGREEMENT", script, 2,
         Steps(<<Crypto("compute_shared_secret"), Crypto("encrypt_pin"),
                 Crypto("encrypt_pin_hash"), Crypto("compute_pin_auth")>>,
         Try("CHANGE_PIN", script, 3, Return(Returned(<<>>))))))

\* get_pin_token as exchanges k and k + 1, then rest.
get_pin_token(script, k, rest) ==
    Try("GET_KEY_AGREEMENT", script, k,
    Steps(<<Crypto("compute_shared_secret"), Crypto("encrypt_pin_hash")>>,
    Try("GET_PIN_TOKEN", script, k + 1,
    Steps(<<Crypto("decrypt_pin_token")>>, rest))))

U8_MAX == 255

\* cbor_to_u8(value).unwrap_or(1) on the totalCredentials field.
total_credentials(field) == IF field >= 0 /\ field <= U8_MAX THEN field ELSE 1

\* for _ in 1..total_credentials: iteration j of the loop as exchange k, with
\* the credentials collected so far.  An Err breaks the loop.
RECURSIVE enumerate_remaining(_, _, _, _, _)
enumerate_remaining(script, k, j, total, credentials) ==
    IF ~(j < total) THEN Return(Returned(credentials))
    ELSE LET a == AnswerAt(script, k)
             ev == <<Exchange("ENUMERATE_CREDENTIALS_NEXT", a)>>
         IN  IF a # 0 THEN [trace |-> ev, result |-> Returned(credentials)]
             ELSE Steps(ev, enumerate_remaining(script, k + 1, j + 1, total,
                                                Append(credentials, j + 1)))

\* enumerate_credentials_for_rp, its first command being exchange k; field is
\* the totalCredentials of the BEGIN reply.  An Err of the BEGIN command is
\* logged and the empty list returned.
enumerate_credentials_for_rp(script, k, field) ==
    LET a == AnswerAt(script, k)
        ev == <<Crypto("compute_pin_auth"), Exchange("ENUMERATE_CREDENTIALS_BEGIN", a)>>
    IN  IF a # 0 THEN [trace |-> ev, result |-> Returned(<<>>)]
        ELSE Steps(ev, enumerate_remaining(script, k + 1, 1,
                                           total_credentials(field), <<1>>))

\* list_credentials: INIT, then the PIN test, get_pin_token, pinAuth,
\* enumerateRPsBegin and the credentials of the RP of its reply (has_rp: the
\* reply names one).  An Err of enumerateRPsBegin returns Ok(vec![]).
list_credentials(has_pin, script, has_rp, field) ==
    Try("INIT", script, 1,
        IF ~has_pin THEN Return(Returned(<<>>))
        ELSE get_pin_token(script, 2,
             Steps(<<Crypto("compute_pin_auth")>>,
                LET a == AnswerAt(script, 4)
                    ev == <<Exchange("ENUMERATE_RPS_BEGIN", a)>>
                IN  IF a # 0 THEN [trace |-> ev, result |-> Returned(<<>>)]
                    ELSE IF ~has_rp THEN [trace |-> ev, result |-> Returned(<<>>)]
                    ELSE Steps(ev, enumerate_credentials_for_rp(script, 5, field)))))

\* delete_credential: INIT, the PIN test, get_pin_token, pinAuth,
\* deleteCredential.
delete_credential(has_pin, script) ==
    Try("INIT", script, 1,
        IF ~has_pin THEN Return(Failed("PinRequired", 0))
        ELSE get_pin_token(script, 2,
             Steps(<<Crypto("compute_pin_auth")>>,
             Try("DELETE_CREDENTIAL", script, 4, Return(Returned(<<>>))))))

\* ---- inputs ----
\* Last exchange of an operation that may fail in the model.
MaxFailAt == 8
\* totalCredentials values: 1..MaxTotal and the first beyond the u8 range.
MaxTotal == 3
Totals == (1..MaxTotal) \cup {U8_MAX + 1}
PinLens == {3, 4, 63, 64}
\* The pin: Option<&str> of list_credentials and delete_credential, by its
\* length.
OptionalPins ==
    {[some |-> FALSE, len |-> 0]} \cup {[some |-> TRUE, len |-> n] : n \in PinLens}
\* Relying parties stored on the authenticator.
MaxRps == 2

\* The INIT exchange (number 1) is no CTAP2 command: it fails in the
\* transport or not at all.
Scripts ==
    {[fail_at |-> 0, answer |-> 0]}
        \cup {[fail_at |-> 1, answer |-> -1]}
        \cup {[fail_at |-> k, answer |-> a] : k \in 2..MaxFailAt, a \in Failures}

Finish(call, r) ==
    /\ c_call' = call
    /\ c_trace' = r.trace
    /\ c_result' = r.result
    /\ UNCHANGED <<dmVars, xVars, iVars, tVars, pVars, lVars, dVars, mVars, gVars>>

SetPin ==
    /\ c_call.op = "none"
    /\ \E n \in PinLens, script \in Scripts :
          Finish([op |-> "set_pin", new_pin_len |-> n], set_pin(n, script))

ChangePin ==
    /\ c_call.op = "none"
    /\ \E c \in PinLens, n \in PinLens, script \in Scripts :
          Finish([op |-> "change_pin", current_pin_len |-> c, new_pin_len |-> n],
                 change_pin(c, n, script))

\* rps is the number of relying parties the authenticator stores (the
\* enumerateRPsBegin reply names the first of them and carries the count as
\* totalRPs, which list_credentials does not read); each stores `total`
\* credentials.
ListCredentials ==
    /\ c_call.op = "none"
    /\ \E pin \in OptionalPins, script \in Scripts, rps \in 0..MaxRps, field \in Totals :
          Finish([op |-> "list_credentials", has_pin |-> pin.some, pin_len |-> pin.len,
                  has_rp |-> rps >= 1, rps |-> rps, total |-> field],
                 list_credentials(pin.some, script, rps >= 1, field))

DeleteCredential ==
    /\ c_call.op = "none"
    /\ \E pin \in OptionalPins, script \in Scripts :
          Finish([op |-> "delete_credential", has_pin |-> pin.some, pin_len |-> pin.len],
                 delete_credential(pin.some, script))

\* ---- get_info: the algorithms field (0x0A) of the reply ----
\* Longest algorithms array of the model.
MaxAlgs == 3

\* cbor_to_u8: Some(val) for an Integer in 0..255, as <<val>>; <<>> for None.
cbor_to_u8(value) ==
    IF value.t = "int" /\ value.val >= 0 /\ value.val <= U8_MAX
    THEN <<value.val>> ELSE <<>>

\* The closure of or_else: the index of a negative COSE identifier.
alg_index(value) ==
    IF value.t # "int" THEN <<>>
    ELSE CASE value.val = -7 -> <<0>>
           [] value.val = -8 -> <<1>>
           [] value.val = -257 -> <<2>>
           [] OTHER -> <<>>

alg_name_of_index(alg_num) ==
    CASE alg_num = 0 -> "ES256"
      [] alg_num = 1 -> "EdDSA"
      [] alg_num = 2 -> "RS256"
      [] OTHER -> "Unknown"

\* if !algorithms.contains(name) { algorithms.push(name) }
push_new(algorithms, name) ==
    IF \E k \in 1..Len(algorithms) : algorithms[k] = name
    THEN algorithms ELSE Append(algorithms, name)

\* One entry of the array with the value of its "alg" key (t = "absent" when
\* the entry has none): the index found by cbor_to_u8 or by the closure is
\* named and pushed, then the raw integer is named and pushed.
decode_alg(algorithms, value) ==
    IF value.t = "absent" THEN algorithms
    ELSE LET alg_num == IF cbor_to_u8(value) # <<>> THEN cbor_to_u8(value)
                        ELSE alg_index(value)
             first == IF alg_num # <<>>
                      THEN push_new(algorithms, alg_name_of_index(alg_num[1]))
                      ELSE algorithms
         IN  IF alg_index(value) # <<>>
             THEN push_new(first, alg_name_of_index(alg_index(value)[1]))
             ELSE first

RECURSIVE decode_algorithms(_, _, _)
decode_algorithms(arr, n, algorithms) ==
    IF n > Len(arr) THEN algorithms
    ELSE decode_algorithms(arr, n + 1, decode_alg(algorithms, arr[n]))

\* get_info: INIT, getInfo, the reply parsed as a CBOR map; of Fido2Info the
\* model keeps the algorithms list, with its default.
get_info(script, reply) ==
    Try("INIT", script, 1,
    Try("GET_INFO", script, 2,
    IF reply.cbor = "invalid" THEN Return(Failed("CborParse", 0))
    ELSE IF reply.cbor = "not_map" THEN Return(Failed("ExpectedMap", 0))
    ELSE LET algorithms == IF reply.field = "array"
                           THEN decode_algorithms(reply.algs, 1, <<>>) ELSE <<>>
         IN  Return(Returned(IF algorithms = <<>> THEN <<"ES256">> ELSE algorithms))))

\* The values an "alg" key may have: the three identifiers get_info names,
\* another negative identifier, a small non-negative one, text, or no key.
AlgValues ==
    {[t |-> "int", val |-> v] : v \in {-7, -8, -257, -35, 1}}
        \cup {[t |-> "text", val |-> 0], [t |-> "absent", val |-> 0]}

RECURSIVE SeqsUpTo(_, _)
SeqsUpTo(S, n) ==
    IF n = 0 THEN {<<>>}
    ELSE LET shorter == SeqsUpTo(S, n - 1)
         IN  shorter \cup {Append(q, x) : q \in shorter, x \in S}

InfoReplies ==
    {[cbor |-> c, field |-> "missing", algs |-> <<>>] : c \in {"invalid", "not_map", "map"}}
        \cup {[cbor |-> "map", field |-> "not_array", algs |-> <<>>]}
        \cup {[cbor |-> "map", field |-> "array", algs |-> a] : a \in SeqsUpTo(AlgValues, MaxAlgs)}

GetInfo ==
    /\ c_call.op = "none"
    /\ \E script \in {sc \in Scripts : sc.fail_at <= 2}, reply \in InfoReplies :
          Finish([op |-> "get_info", reply |-> reply], get_info(script, reply))

\* The operation is over: its locals are dropped.
OperationOver ==
    /\ c_call.op # "none"
    /\ c_call' = [op |-> "none"]
    /\ c_trace' = <<>>
    /\ c_result' = NotReturned
    /\ UNCHANGED <<dmVars, xVars, iVars, tVars, pVars, lVars, dVars, mVars, gVars>>

NextCtap ==
    SetPin \/ ChangePin \/ ListCredentials \/ DeleteCredential \/ GetInfo \/ OperationOver

SpecCtap == Init /\ [][NextCtap]_vars

(***************************************************************************)
(* transport.rs as called from the dispatcher (sendHid).                   *)
(***************************************************************************)
\* Longest argument given to send_hid in the model (beyond the report size).
MaxSendLen == 66

\* Octets of length n: octet k is (p * k + 1) mod 256, never all zero.
Octets(n, p) == [k \in 1..n |-> (p * k + 1) % 256]

\* send_hid(device, data): device.write is reached only with a padded
\* report; write_ok is the outcome of device.write.
SendHid ==
    /\ t_call.op = "none"
    /\ \E n \in 0..MaxSendLen, p \in Patterns, write_ok \in BOOLEAN :
          LET data == Octets(n, p)
              r == send_hid(data)
          IN  /\ t_call' = [op |-> "send_hid", arg |-> data]
              /\ t_io' = IF r.ok THEN <<r.report>> ELSE <<>>
              /\ t_result' =
                    IF ~r.ok THEN [ok |-> FALSE, err |-> "PacketTooLarge", value |-> <<>>]
                    ELSE IF ~write_ok THEN [ok |-> FALSE, err |-> "IoError", value |-> <<>>]
                    ELSE [ok |-> TRUE, err |-> "none", value |-> <<Len(r.report)>>]
    /\ UNCHANGED <<dmVars, xVars, iVars, cVars, pVars, lVars, dVars, mVars, gVars>>

\* The call is over: its locals are dropped.
TransportOver ==
    /\ t_call.op # "none"
    /\ t_call' = [op |-> "none", arg |-> <<>>]
    /\ t_io' = <<>>
    /\ t_result' = [ok |-> TRUE, err |-> "none", value |-> <<>>]
    /\ UNCHANGED <<dmVars, xVars, iVars, cVars, pVars, lVars, dVars, mVars, gVars>>



(***************************************************************************)
(* transport.rs: transmit_apdu; piv.rs: the PIV client.                    *)
(***************************************************************************)
INS_SELECT == 164
INS_GET_DATA == 203
INS_GET_RESPONSE == 192

PIV_AID == <<160, 0, 0, 3, 8>>
TAG_DISCOVERY == <<126>>
TAG_CHUID == <<95, 193, 2>>
TAG_CERT_PIV_AUTH == <<95, 193, 5>>
TAG_CERT_CARD_AUTH == <<95, 193, 1>>
TAG_CERT_DIGITAL_SIG == <<95, 193, 10>>
TAG_CERT_KEY_MGMT == <<95, 193, 11>>

build_select_apdu(aid) == <<0, INS_SELECT, 4, 0, Len(aid)>> \o aid

build_get_data_apdu(tag) ==
    LET data == <<92, Len(tag)>> \o tag
    IN  <<0, INS_GET_DATA, 63, 255, Len(data)>> \o data \o <<0>>

build_get_response_apdu(le) == <<0, INS_GET_RESPONSE, 0, 0, le>>

\* transmit_apdu without the test of the APDU length.
transmit_apdu_any_length(apdu, reply) ==
    IF ~reply.card_ok
    THEN [submitted |-> TRUE, ok |-> FALSE, err |-> "TransmitFailed", response |-> <<>>]
    ELSE IF Len(reply.response) < 2
    THEN [submitted |-> TRUE, ok |-> FALSE, err |-> "ResponseTooShort", response |-> <<>>]
    ELSE [submitted |-> TRUE, ok |-> TRUE, err |-> "none", response |-> reply.response]

\* transmit_apdu: reply is what card.transmit does with the APDU (card_ok:
\* it returns a response).  submitted tells whether card.transmit was called.
transmit_apdu(apdu, reply) ==
    IF Len(apdu) < 4
    THEN [submitted |-> FALSE, ok |-> FALSE, err |-> "ApduTooShort", response |-> <<>>]
    ELSE IF ~reply.card_ok
    THEN [submitted |-> TRUE, ok |-> FALSE, err |-> "TransmitFailed", response |-> <<>>]
    ELSE IF Len(reply.response) < 2
    THEN [submitted |-> TRUE, ok |-> FALSE, err |-> "ResponseTooShort", response |-> <<>>]
    ELSE [submitted |-> TRUE, ok |-> TRUE, err |-> "none", response |-> reply.response]

\* The k-th card.transmit of an exchange: replies is what the card answers,
\* APDU by APDU; a card that answers nothing more makes the transmit fail.
ReplyAt(replies, k) ==
    IF k <= Len(replies) THEN replies[k] ELSE [card_ok |-> FALSE, response |-> <<>>]

\* Longest APDU and longest card response of a transmit_apdu call.
MaxApduLen == 6
MaxResponseLen == 4

\* transmit_apdu(card, apdu): card.transmit gets the APDU as it is; it fails
\* or returns a response of any length.
TransmitApdu ==
    /\ t_call.op = "none"
    /\ \E n \in 0..MaxApduLen, p \in Patterns, card_ok \in BOOLEAN, rn \in 0..MaxResponseLen :
          LET apdu == Octets(n, p)
              reply == [card_ok |-> card_ok,
                        response |-> IF card_ok THEN Octets(rn, 5) ELSE <<>>]
              r == transmit_apdu(apdu, reply)
          IN  /\ t_call' = [op |-> "transmit_apdu", arg |-> apdu, reply |-> reply]
              /\ t_io' = IF r.submitted THEN <<apdu>> ELSE <<>>
              /\ t_result' = [ok |-> r.ok, err |-> r.err, value |-> r.response]
    /\ UNCHANGED <<dmVars, xVars, iVars, cVars, pVars, lVars, dVars, mVars, gVars>>

(***************************************************************************)
(* main.rs: handle_send_hid and handle_transmit_apdu, from the JSON array  *)
(* of the request to the transport call.                                   *)
(***************************************************************************)
\* serde_json values by what as_u64 sees: integers, other numbers, others.
JsonInt(n) == [t |-> "int", val |-> n]
JsonFloat == [t |-> "float", val |-> 0]
JsonText == [t |-> "text", val |-> 0]

\* Value::as_u64: Some(n) for a non-negative integer.
as_u64(v) == v.t = "int" /\ v.val >= 0

\* n as u8.
as_u8(n) == n % (U8_MAX + 1)

\* array.iter().filter_map(|v| v.as_u64().map(|n| n as u8)).collect()
RECURSIVE json_to_bytes(_)
json_to_bytes(array) ==
    IF array = <<>> THEN <<>>
    ELSE IF as_u64(Head(array))
         THEN <<as_u8(Head(array).val)>> \o json_to_bytes(Tail(array))
         ELSE json_to_bytes(Tail(array))

NoValue == [ok |-> FALSE, code |-> "", io |-> <<>>, value |-> <<>>]

\* handle_send_hid: params is [device_id, data] with data an array or
\* missing; tbl the open-device table, write_ok the outcome of device.write.
handle_send_hid(params, tbl, write_ok) ==
    IF ~params.device_id THEN [NoValue EXCEPT !.code = "INVALID_PARAMS"]
    ELSE IF ~params.data.some THEN [NoValue EXCEPT !.code = "INVALID_PARAMS"]
    ELSE LET data_bytes == json_to_bytes(params.data.array)
         IN  IF Len(data_bytes) # Len(params.data.array)
             THEN [NoValue EXCEPT !.code = "INVALID_PARAMS"]
             ELSE IF with_hid_device(tbl, HidId(1)) # "call"
             THEN [NoValue EXCEPT !.code = "HID_SEND_FAILED"]
             ELSE LET r == send_hid(data_bytes)
                  IN  IF ~r.ok THEN [NoValue EXCEPT !.code = "HID_SEND_FAILED"]
                      ELSE IF ~write_ok
                      THEN [ok |-> FALSE, code |-> "HID_SEND_FAILED",
                            io |-> <<r.report>>, value |-> <<>>]
                      ELSE [ok |-> TRUE, code |-> "", io |-> <<r.report>>,
                            value |-> <<Len(r.report)>>]

\* handle_transmit_apdu: the same with the apdu array and the card's reply.
handle_transmit_apdu(params, tbl, reply) ==
    IF ~params.device_id THEN [NoValue EXCEPT !.code = "INVALID_PARAMS"]
    ELSE IF ~params.data.some THEN [NoValue EXCEPT !.code = "INVALID_PARAMS"]
    ELSE LET apdu_bytes == json_to_bytes(params.data.array)
         IN  IF Len(apdu_bytes) # Len(params.data.array)
             THEN [NoValue EXCEPT !.code = "INVALID_PARAMS"]
             ELSE IF with_ccid_card(tbl, CcidId(1)) # "call"
             THEN [NoValue EXCEPT !.code = "APDU_TRANSMIT_FAILED"]
             ELSE LET r == transmit_apdu(apdu_bytes, reply)
                  IN  [ok |-> r.ok,
                       code |-> IF r.ok THEN "" ELSE "APDU_TRANSMIT_FAILED",
                       io |-> IF r.submitted THEN <<apdu_bytes>> ELSE <<>>,
                       value |-> r.response]

\* ---- inputs ----
\* Longest array of a request.
MaxArrayLen == 4

\* Array elements: octets, integers beside the octet range, other numbers,
\* other values.
JsonElements ==
    {JsonInt(n) : n \in {-1, 0, U8_MAX, U8_MAX + 1, U8_MAX + 8}}
        \cup {JsonFloat, JsonText}

\* Arrays of octets with at most one element replaced by any element.
JsonArrays ==
    {[k \in 1..n |-> IF k = pos THEN v ELSE JsonInt(Octets(n, 3)[k])] :
        n \in 0..MaxArrayLen, pos \in 1..MaxArrayLen, v \in JsonElements}

HandlerParams ==
    {[device_id |-> TRUE, data |-> [some |-> TRUE, array |-> a]] : a \in JsonArrays}
        \cup {[device_id |-> FALSE, data |-> [some |-> TRUE, array |-> <<>>]],
              [device_id |-> TRUE, data |-> [some |-> FALSE, array |-> <<>>]]}

HandlerDone(op, params, r) ==
    /\ t_call' = [op |-> op, arg |-> params.data.array, params |-> params]
    /\ t_io' = r.io
    /\ t_result' = [ok |-> r.ok, err |-> r.code, value |-> r.value]
    /\ UNCHANGED <<dmVars, xVars, iVars, cVars, pVars, lVars, dVars, mVars, gVars>>

HandleSendHid ==
    /\ t_call.op = "none"
    /\ \E params \in HandlerParams, tbl \in ProbeTables(HidId(1)), write_ok \in BOOLEAN :
          HandlerDone("handle_send_hid", params, handle_send_hid(params, tbl, write_ok))

HandleTransmitApdu ==
    /\ t_call.op = "none"
    /\ \E params \in HandlerParams, tbl \in ProbeTables(CcidId(1)),
          card_ok \in BOOLEAN, rn \in {0, 2} :
          HandlerDone("handle_transmit_apdu", params,
                      handle_transmit_apdu(params, tbl,
                          [card_ok |-> card_ok,
                           response |-> IF card_ok THEN Octets(rn, 5) ELSE <<>>]))

NextTransport ==
    SendHid \/ TransmitApdu \/ HandleSendHid \/ HandleTransmitApdu \/ TransportOver

SpecTransport == Init /\ [][NextTransport]_vars

\* Values of transmit_apdu_with_chaining.
PivOk(data) == [ok |-> TRUE, err |-> "none", sw1 |-> 0, sw2 |-> 0, data |-> data]
PivErr(err, sw1, sw2) == [ok |-> FALSE, err |-> err, sw1 |-> sw1, sw2 |-> sw2, data |-> <<>>]

\* The status field of an ApduLog entry.
log_status(sw1, sw2) ==
    IF sw1 = 144 /\ sw2 = 0 THEN "OK"
    ELSE IF sw1 = 97 THEN "MORE_DATA"
    ELSE "ERROR"

\* An ApduLog entry (the description text is left out).
ApduLog(command, follow_up, apdu, response) ==
    LET sw1 == response[Len(response) - 1]
        sw2 == response[Len(response)]
    IN  [command |-> command, get_response |-> follow_up, command_hex |-> apdu,
         response_hex |-> response, sw1 |-> sw1, sw2 |-> sw2,
         status |-> log_status(sw1, sw2)]

\* The GET RESPONSE that asks for a fixed number of octets.
next_get_response_fixed(remaining) == build_get_response_apdu(0)

\* The GET RESPONSE built in the loop from `remaining`.
next_get_response(remaining) == build_get_response_apdu(remaining)

\* The loop of transmit_apdu_with_chaining, its next transmit being number k
\* of the exchange.  m is the outcome of with_ccid_card's table lookup.
RECURSIVE get_response_loop(_, _, _, _, _, _, _, _)
get_response_loop(m, command_name, replies, k, full_response, remaining, log, wire) ==
    LET get_response == next_get_response(remaining)
        t == transmit_apdu(get_response, ReplyAt(replies, k))
        wire2 == IF t.submitted THEN Append(wire, get_response) ELSE wire
        chunk == t.response
        chunk_sw1 == chunk[Len(chunk) - 1]
        chunk_sw2 == chunk[Len(chunk)]
        chunk_data == SubSeq(chunk, 1, Len(chunk) - 2)
        log2 == Append(log, ApduLog(command_name, TRUE, get_response, chunk))
    IN  IF m # "call"
        THEN [result |-> PivErr(m, 0, 0), log |-> log, wire |-> wire]
        ELSE IF ~t.ok
        THEN [result |-> PivErr(t.err, 0, 0), log |-> log, wire |-> wire2]
        ELSE IF chunk_sw1 = 144 /\ chunk_sw2 = 0
        THEN [result |-> PivOk(full_response \o chunk_data), log |-> log2, wire |-> wire2]
        ELSE IF chunk_sw1 = 97
        THEN get_response_loop(m, command_name, replies, k + 1,
                               full_response \o chunk_data, chunk_sw2, log2, wire2)
        ELSE [result |-> PivErr("GetResponseError", chunk_sw1, chunk_sw2),
              log |-> log2, wire |-> wire2]

\* transmit_apdu_with_chaining: the value returned, the activity log after
\* the call and the APDUs handed to card.transmit, in order.
transmit_apdu_with_chaining(m, apdu, command_name, activity_log, replies) ==
    LET t == transmit_apdu(apdu, ReplyAt(replies, 1))
        wire == IF t.submitted THEN <<apdu>> ELSE <<>>
        response == t.response
        sw1 == response[Len(response) - 1]
        sw2 == response[Len(response)]
        data == SubSeq(response, 1, Len(response) - 2)
        log == Append(activity_log, ApduLog(command_name, FALSE, apdu, response))
    IN  IF m # "call"
        THEN [result |-> PivErr(m, 0, 0), log |-> activity_log, wire |-> <<>>]
        ELSE IF ~t.ok
        THEN [result |-> PivErr(t.err, 0, 0), log |-> activity_log, wire |-> wire]
        ELSE IF sw1 = 97
        THEN get_response_loop(m, command_name, replies, 2, data, sw2, log, wire)
        ELSE IF sw1 # 144 \/ sw2 # 0
        THEN IF sw1 = 106 /\ sw2 = 130
             THEN [result |-> PivOk(<<>>), log |-> log, wire |-> wire]
             ELSE [result |-> PivErr("ApduError", sw1, sw2), log |-> log, wire |-> wire]
        ELSE [result |-> PivOk(data), log |-> log, wire |-> wire]

\* ---- TLV ----
\* The inner while of parse_tlv: the index after the tag octets with bit 8 set.
RECURSIVE skip_tag_octets(_, _)
skip_tag_octets(data, i) ==
    IF i < Len(data) /\ data[i + 1] >= 128 THEN skip_tag_octets(data, i + 1) ELSE i

\* parse_tlv from index i (from 0): the (tag, value) pairs, in order.
RECURSIVE parse_tlv_from(_, _)
parse_tlv_from(data, i) ==
    IF ~(i < Len(data)) THEN <<>>
    ELSE LET multi == data[i + 1] % 32 = 31
             j == IF multi THEN skip_tag_octets(data, i + 1) ELSE i + 1
             k == IF multi /\ j < Len(data) THEN j + 1 ELSE j
             tag == SubSeq(data, i + 1, k)
         IN  IF k >= Len(data) THEN <<>>
             ELSE LET l0 == data[k + 1]
                      v == k + 1
                      len_at ==
                          IF l0 = 129 /\ v < Len(data) THEN <<data[v + 1], v + 1>>
                          ELSE IF l0 = 130 /\ v + 1 < Len(data)
                          THEN <<data[v + 1] * 256 + data[v + 2], v + 2>>
                          ELSE IF l0 = 131 /\ v + 2 < Len(data)
                          THEN <<data[v + 1] * 65536 + data[v + 2] * 256 + data[v + 3], v + 3>>
                          ELSE <<l0, v>>
                      length == len_at[1]
                      at == len_at[2]
                  IN  IF at + length <= Len(data)
                      THEN <<[tag |-> tag, value |-> SubSeq(data, at + 1, at + length)]>>
                               \o parse_tlv_from(data, at + length)
                      ELSE <<>>

parse_tlv(data) == parse_tlv_from(data, 0)

\* The value of the first entry of tlv with tag tg, from entry n on, as a
\* one-element sequence; <<>> when there is none.
RECURSIVE first_value(_, _, _)
first_value(tlv, n, tg) ==
    IF n > Len(tlv) THEN <<>>
    ELSE IF tlv[n].tag = tg THEN <<tlv[n].value>>
    ELSE first_value(tlv, n + 1, tg)

\* extract_certificate_from_data: the value of the first tag 70 found in an
\* outer tag 53, as <<certificate>>; <<>> for None.
RECURSIVE extract_from(_, _)
extract_from(tlv, n) ==
    IF n > Len(tlv) THEN <<>>
    ELSE LET inner == IF tlv[n].tag = <<83>>
                      THEN first_value(parse_tlv(tlv[n].value), 1, <<112>>)
                      ELSE <<>>
         IN  IF inner # <<>> THEN inner ELSE extract_from(tlv, n + 1)

\* extract_certificate_from_data that returns the value of the outer tag 53.
extract_certificate_outer_value(data) == first_value(parse_tlv(data), 1, <<83>>)

extract_certificate_from_data(data) == extract_from(parse_tlv(data), 1)

\* ---- get_piv_data ----
cert_slots ==
    << [slot |-> "9A", tag |-> TAG_CERT_PIV_AUTH],
       [slot |-> "9E", tag |-> TAG_CERT_CARD_AUTH],
       [slot |-> "9C", tag |-> TAG_CERT_DIGITAL_SIG],
       [slot |-> "9D", tag |-> TAG_CERT_KEY_MGMT] >>

\* The element of a one-element set (binds a value computed once).
The(S) == CHOOSE x \in S : TRUE

\* The record with present set for every non-empty body.
certificate_record_any_data(slot, r) ==
    [slot |-> slot,
     present |-> r.result.ok /\ r.result.data # <<>>]

\* The PivCertificate pushed for a slot: present when the exchange returned a
\* non-empty body that holds a certificate.
certificate_record(slot, r) ==
    [slot |-> slot,
     present |-> /\ r.result.ok
                 /\ r.result.data # <<>>
                 /\ extract_certificate_from_data(r.result.data) # <<>>]

\* The for loop over cert_slots from slot n on; cards[3 + n] is what the card
\* answers during the GET DATA of slot n, acc the certificates, the activity
\* log and the APDUs transmitted so far.
RECURSIVE check_slots(_, _, _, _)
check_slots(m, cards, n, acc) ==
    IF n > Len(cert_slots) THEN acc
    ELSE The({check_slots(m, cards, n + 1, next) :
                next \in {[certificates |-> Append(acc.certificates,
                                               certificate_record(cert_slots[n].slot, r)),
                           log |-> r.log,
                           wire |-> acc.wire \o r.wire] :
                    r \in {transmit_apdu_with_chaining(m,
                               build_get_data_apdu(cert_slots[n].tag),
                               <<"GET DATA (Certificate)", cert_slots[n].slot>>,
                               acc.log, cards[3 + n])}}})

\* get_piv_data after a SELECT that returned Ok (s): Discovery, CHUID, the
\* four slots.  Of the Discovery object and the CHUID the model keeps whether
\* they were recorded.
after_select(m, cards, s) ==
    LET selected == \/ s.result.data # <<>>
                    \/ (s.log # <<>> /\ s.log[Len(s.log)].sw1 = 144
                                     /\ s.log[Len(s.log)].sw2 = 0)
        none == [selected |-> FALSE, discovery |-> FALSE, chuid |-> FALSE,
                 certificates |-> <<>>]
    IN  IF ~selected
        THEN [ok |-> FALSE, err |-> "SelectFailed", info |-> none, activity_log |-> <<>>,
              wire |-> s.wire]
        ELSE The({[ok |-> TRUE, err |-> "none",
                   info |-> [selected |-> TRUE,
                             discovery |-> d.result.ok /\ d.result.data # <<>>,
                             chuid |-> c.result.ok /\ c.result.data # <<>>,
                             certificates |-> slots.certificates],
                   activity_log |-> slots.log,
                   wire |-> slots.wire] :
                <<d, c, slots>> \in
                  {<<d, c, check_slots(m, cards, 1,
                            [certificates |-> <<>>, log |-> c.log,
                             wire |-> s.wire \o d.wire \o c.wire])>> :
                     <<d, c>> \in
                       {<<d, transmit_apdu_with_chaining(m, build_get_data_apdu(TAG_CHUID),
                                 <<"GET DATA (CHUID)">>, d.log, cards[3])>> :
                          d \in {transmit_apdu_with_chaining(m,
                                     build_get_data_apdu(TAG_DISCOVERY),
                                     <<"GET DATA (Discovery Object)">>, s.log, cards[2])}}}})

\* get_piv_data: SELECT first (its Err is returned with `?`).  cards[n] is
\* what the card answers during exchange n.
get_piv_data(m, cards) ==
    The({IF ~s.result.ok
         THEN [ok |-> FALSE, err |-> s.result.err,
               info |-> [selected |-> FALSE, discovery |-> FALSE, chuid |-> FALSE,
                         certificates |-> <<>>],
               activity_log |-> <<>>, wire |-> s.wire]
         ELSE after_select(m, cards, s) :
            s \in {transmit_apdu_with_chaining(m, build_select_apdu(PIV_AID),
                       <<"SELECT PIV Application">>, <<>>, cards[1])}})

\* ---- what the card answers ----
\* Most 61 XX replies in one exchange of the model.
MaxChain == 3

Reply(body, sw1, sw2) == [card_ok |-> TRUE, response |-> body \o <<sw1, sw2>>]
NoReply == [card_ok |-> FALSE, response |-> <<>>]

\* Replies that end an exchange, as reply number k: 90 00 with and without
\* a body, 6A 82, 69 82, a failing transmit, a response of one octet.
LastReplies(k) ==
    {Reply(Octets(32, k), 144, 0), Reply(<<>>, 144, 0), Reply(<<>>, 106, 130),
     Reply(<<>>, 105, 130), NoReply, [card_ok |-> TRUE, response |-> <<144>>]}

\* 61 XX replies, as reply number k.
MoreReplies(k) ==
    {Reply(Octets(n, k), 97, xx) : n \in {0, 32, 64}, xx \in {32, 64}}

\* The exchanges with c replies 61 XX from reply number k on.
RECURSIVE ChainsFrom(_, _)
ChainsFrom(k, c) ==
    IF c = 0 THEN {<<r>> : r \in LastReplies(k)}
    ELSE {<<r>> \o rest : r \in MoreReplies(k), rest \in ChainsFrom(k + 1, c - 1)}

Chains == UNION {ChainsFrom(1, c) : c \in 0..MaxChain}

TableLookups == {"call", "WrongKind", "NotOpen"}

\* A data object with a certificate, one without, and their answers.
WithCert == <<83, 4, 112, 2, 170, 187>>
WithoutCert == <<83, 2, 113, 0>>

\* What the card may answer during one GET DATA of get_piv_data.
SlotAnswers ==
    { <<Reply(WithCert, 144, 0)>>,
      <<Reply(WithoutCert, 144, 0)>>,
      <<Reply(<<>>, 144, 0)>>,
      <<Reply(<<>>, 106, 130)>>,
      <<Reply(<<>>, 105, 130)>>,
      <<Reply(SubSeq(WithCert, 1, 3), 97, 3), Reply(SubSeq(WithCert, 4, 6), 144, 0)>>,
      <<Reply(SubSeq(WithCert, 1, 3), 97, 3), Reply(<<>>, 106, 130)>>,
      <<NoReply>>,
      <<Reply(SubSeq(WithCert, 1, 3), 97, 3), NoReply>> }

ObjectAnswers == {<<Reply(<<126, 2, 79, 0>>, 144, 0)>>, <<NoReply>>}

\* SELECT answered 90 00, then every combination of answers.
CardsSelected ==
    {<<<<Reply(<<>>, 144, 0)>>, d, c, s1, s2, s3, s4>> :
        d \in ObjectAnswers, c \in ObjectAnswers,
        s1 \in SlotAnswers, s2 \in SlotAnswers, s3 \in SlotAnswers, s4 \in SlotAnswers}

\* Every answer to SELECT, the other objects found.
CardsAnySelect ==
    {<<s, <<Reply(<<>>, 106, 130)>>, <<Reply(<<>>, 106, 130)>>,
       <<Reply(WithCert, 144, 0)>>, <<Reply(WithCert, 144, 0)>>,
       <<Reply(WithCert, 144, 0)>>, <<Reply(WithCert, 144, 0)>>>> : s \in SlotAnswers}

\* One transmit_apdu_with_chaining call (as select_piv and get_piv_data make
\* it) with an empty activity log.
ChainedExchange ==
    /\ p_call.op = "none"
    /\ \E m \in TableLookups, replies \in Chains,
          apdu \in {build_select_apdu(PIV_AID), build_get_data_apdu(TAG_CERT_PIV_AUTH)} :
          \E r \in {transmit_apdu_with_chaining(m, apdu, <<"APDU">>, <<>>, replies)} :
              /\ p_call' = [op |-> "transmit_apdu_with_chaining", apdu |-> apdu,
                            replies |-> replies]
              /\ p_wire' = r.wire
              /\ p_log' = r.log
              /\ p_result' = r.result
    /\ UNCHANGED <<dmVars, xVars, iVars, cVars, tVars, lVars, dVars, mVars, gVars>>

GetPivData ==
    /\ p_call.op = "none"
    /\ \E m \in TableLookups, cards \in CardsSelected \cup CardsAnySelect :
          \E r \in {get_piv_data(m, cards)} :
              /\ p_call' = [op |-> "get_piv_data", cards |-> cards]
              /\ p_wire' = r.wire
              /\ p_log' = r.activity_log
              /\ p_result' = [ok |-> r.ok, err |-> r.err, info |-> r.info]
    /\ UNCHANGED <<dmVars, xVars, iVars, cVars, tVars, lVars, dVars, mVars, gVars>>

\* Longest certificate of the model that fits every length form, and the
\* lengths that need the long forms.
MaxCertLen == 3

CertLens == (0..MaxCertLen) \cup {125, 126, 200, 300}

LengthForms == {"short", "81", "82", "83"}

\* A BER length n in the form asked for: one octet below 0x80, or 0x81, 0x82,
\* 0x83 followed by 1, 2, 3 octets, big-endian.
encode_length(form, n) ==
    CASE form = "short" -> <<n>>
      [] form = "81" -> <<129, n>>
      [] form = "82" -> <<130, n \div 256, n % 256>>
      [] OTHER -> <<131, n \div 65536, (n \div 256) % 256, n % 256>>

\* Whether form can express n.
form_fits(form, n) ==
    CASE form = "short" -> n < 128
      [] form = "81" -> n < 256
      [] OTHER -> TRUE

\* The inner entry 70 clen cert, and the object 53 len 70 clen cert.
cert_entry(inner_form, cert) == <<112>> \o encode_length(inner_form, Len(cert)) \o cert
cert_object(outer_form, entry) == <<83>> \o encode_length(outer_form, Len(entry)) \o entry

\* parse_tlv(data), parse_tlv of the value of its first entry, and
\* extract_certificate_from_data(data), for a certificate object built with
\* the two length forms chosen.
ParseObject ==
    /\ p_call.op = "none"
    /\ \E n \in CertLens, pat \in Patterns, inner_form \in LengthForms, outer_form \in LengthForms :
          LET cert == Octets(n, pat)
              entry == cert_entry(inner_form, cert)
              data == cert_object(outer_form, entry)
          IN  /\ form_fits(inner_form, n)
              /\ form_fits(outer_form, Len(entry))
              /\ \E outer \in {parse_tlv(data)} :
                    /\ p_call' = [op |-> "parse_tlv", data |-> data, cert |-> cert,
                                  inner_form |-> inner_form, outer_form |-> outer_form]
                    /\ p_result' = [ok |-> TRUE,
                                    outer |-> outer,
                                    inner |-> IF Len(outer) > 0
                                              THEN parse_tlv(outer[1].value) ELSE <<>>,
                                    certificate |-> extract_certificate_from_data(data)]
    /\ p_wire' = <<>>
    /\ p_log' = <<>>
    /\ UNCHANGED <<dmVars, xVars, iVars, cVars, tVars, lVars, dVars, mVars, gVars>>

\* The call is over: its locals are dropped.
PivOver ==
    /\ p_call.op # "none"
    /\ p_call' = [op |-> "none"]
    /\ p_wire' = <<>>
    /\ p_log' = <<>>
    /\ p_result' = [ok |-> TRUE]
    /\ UNCHANGED <<dmVars, xVars, iVars, cVars, tVars, lVars, dVars, mVars, gVars>>

NextPiv == ChainedExchange \/ GetPivData \/ ParseObject \/ PivOver

SpecPiv == Init /\ [][NextPiv]_vars

(***************************************************************************)
(* device.rs: one list_devices call, by what the two stacks show.          *)
(***************************************************************************)
\* Readers a list_devices call may find.
MaxListCcid == 2

ListReaders == 1..MaxListCcid

\* list_devices(): hid and ccid are the matching interfaces and readers the
\* OS has; api_ok, ctx_ok and readers_ok tell which stack works.
ListCall ==
    /\ l_call.op = "none"
    /\ \E hid \in SUBSET HidIfs, ccid \in SUBSET ListReaders,
          api_ok \in BOOLEAN, ctx_ok \in BOOLEAN, readers_ok \in BOOLEAN :
          /\ l_call' = [op |-> "list_devices", hid |-> hid, ccid |-> ccid,
                        api_ok |-> api_ok, ctx_ok |-> ctx_ok, readers_ok |-> readers_ok]
          /\ l_result' = [ok |-> TRUE,
                          devices |-> list_devices(api_ok, ctx_ok, readers_ok, hid, ccid)]
    /\ UNCHANGED <<dmVars, xVars, iVars, cVars, tVars, pVars, dVars, mVars, gVars>>

ListOver ==
    /\ l_call.op # "none"
    /\ l_call' = NoList
    /\ l_result' = [ok |-> TRUE, devices |-> <<>>]
    /\ UNCHANGED <<dmVars, xVars, iVars, cVars, tVars, pVars, dVars, mVars, gVars>>

NextList == ListCall \/ ListOver

SpecList == Init /\ [][NextList]_vars

(***************************************************************************)
(* protocol.rs: detect_protocols.  Every probe leases the device with      *)
(* with_hid_device or with_ccid_card and runs one exchange in the closure. *)
(***************************************************************************)
\* with_hid_device(device_id, |device| { send_hid(device, &packet)?;
\* receive_hid(device, ..) }): packet is a 64-octet report; x tells whether
\* the write and the read work and what the read delivers.
hid_probe(tbl, device_id, x) ==
    LET m == with_hid_device(tbl, device_id)
        r == receive_hid(x.read_ok, x.bytes)
    IN  IF m # "call" THEN [ok |-> FALSE, err |-> m, response |-> <<>>]
        ELSE IF ~send_hid(Zeros(HID_REPORT_LEN)).ok \/ ~x.send_ok
        THEN [ok |-> FALSE, err |-> "SendFailed", response |-> <<>>]
        ELSE IF r.kind # "data"
        THEN [ok |-> FALSE, err |-> "ReceiveFailed", response |-> <<>>]
        ELSE [ok |-> TRUE, err |-> "none", response |-> r.bytes]

\* The closure of a smart-card probe run without the lease.
ccid_probe_without_lease(tbl, device_id, apdu, reply) ==
    LET r == transmit_apdu(apdu, reply)
    IN  [ok |-> r.ok, err |-> r.err, response |-> r.response]

\* with_ccid_card(device_id, |card| transmit_apdu(card, &select)).
ccid_probe(tbl, device_id, apdu, reply) ==
    LET m == with_ccid_card(tbl, device_id)
        r == transmit_apdu(apdu, reply)
    IN  IF m # "call" THEN [ok |-> FALSE, err |-> m, response |-> <<>>]
        ELSE [ok |-> r.ok, err |-> r.err, response |-> r.response]

\* The test of the status word the three smart-card probes share.
select_succeeded(r) ==
    /\ r.ok
    /\ Len(r.response) >= 2
    /\ r.response[Len(r.response) - 1] = 144
    /\ r.response[Len(r.response)] = 0

\* detect_fido2: the INIT exchange gives the channel (the broadcast channel
\* when it fails or the reply has fewer than 19 octets), then getInfo decides.
detect_fido2(tbl, device_id, init, getinfo) ==
    LET i == hid_probe(tbl, device_id, init)
        cid == IF i.ok /\ Len(i.response) >= 19
               THEN SubSeq(i.response, 16, 19) ELSE <<255, 255, 255, 255>>
        g == hid_probe(tbl, device_id, getinfo)
    IN  [cid |-> cid, value |-> g.ok /\ Len(g.response) >= 7]

\* detect_u2f: PING, and the version request when PING was answered.
detect_u2f(tbl, device_id, ping, version) ==
    LET p == hid_probe(tbl, device_id, ping)
        responds == IF p.ok THEN Len(p.response) # 0 ELSE FALSE
        v == hid_probe(tbl, device_id, version)
    IN  IF ~responds THEN FALSE
        ELSE v.ok /\ Len(v.response) >= 10

SELECT_PIV == <<0, 164, 4, 0, 5, 160, 0, 0, 3, 8>>
SELECT_OPENPGP == <<0, 164, 4, 0, 6, 210, 118, 0, 1, 36, 1>>
SELECT_NDEF == <<0, 164, 4, 0, 7, 210, 118, 0, 0, 133, 1, 1>>

detect_piv(tbl, device_id, reply) ==
    select_succeeded(ccid_probe(tbl, device_id, SELECT_PIV, reply))

detect_openpgp(tbl, device_id, reply) ==
    select_succeeded(ccid_probe(tbl, device_id, SELECT_OPENPGP, reply))

detect_ndef(tbl, device_id, reply) ==
    select_succeeded(ccid_probe(tbl, device_id, SELECT_NDEF, reply))

\* detect_otp that reports the capability when the device answers.
detect_otp_on_answer(tbl, device_id, x) ==
    hid_probe(tbl, device_id, x).ok

\* detect_otp: false in both arms of the match.
detect_otp(tbl, device_id, x) ==
    IF hid_probe(tbl, device_id, x).ok THEN FALSE ELSE FALSE

\* detect_protocols: io gives what each of the eight exchanges does.
detect_protocols(tbl, device_id, io) ==
    [ok |-> TRUE,
     fido2 |-> detect_fido2(tbl, device_id, io.init, io.getinfo).value,
     u2f |-> detect_u2f(tbl, device_id, io.ping, io.version),
     piv |-> detect_piv(tbl, device_id, io.piv),
     openpgp |-> detect_openpgp(tbl, device_id, io.openpgp),
     otp |-> detect_otp(tbl, device_id, io.otp),
     ndef |-> detect_ndef(tbl, device_id, io.ndef)]

\* What one HID exchange may do: the write fails, the read fails or times
\* out (no octet), or a report of one of lens octets arrives.
HidAnswers(lens) ==
    {[send_ok |-> FALSE, read_ok |-> TRUE, bytes |-> <<>>],
     [send_ok |-> TRUE, read_ok |-> FALSE, bytes |-> <<>>],
     [send_ok |-> TRUE, read_ok |-> TRUE, bytes |-> <<>>]}
    \cup {[send_ok |-> TRUE, read_ok |-> TRUE, bytes |-> Octets(n, 1)] : n \in lens}

NoHidAnswer == [send_ok |-> FALSE, read_ok |-> TRUE, bytes |-> <<>>]

\* What the card may do with a SELECT: the transmit fails, or it answers
\* with nothing, one octet, 6A 82, 90 00 or data followed by 90 00.
CardAnswers ==
    {[card_ok |-> FALSE, response |-> <<>>]}
    \cup {[card_ok |-> TRUE, response |-> r] :
            r \in {<<>>, <<144>>, <<106, 130>>, <<144, 0>>, <<97, 2, 144, 0>>}}

NoCardAnswer == [card_ok |-> FALSE, response |-> <<>>]

\* What an exchange would be answered if it reached a device of the other
\* kind than the one behind the id: nothing, or a full answer.
StrayHidAnswers == {NoHidAnswer, [send_ok |-> TRUE, read_ok |-> TRUE,
                                  bytes |-> Octets(HID_REPORT_LEN, 1)]}
StrayCardAnswers == {NoCardAnswer, [card_ok |-> TRUE, response |-> <<144, 0>>]}

\* The device behind the id answers the exchanges of its kind; those of the
\* other kind all get the same stray answer.
ProbeIo(tbl, device_id) ==
    IF KindOf(tbl, device_id) = "Hid"
    THEN {[init |-> i, getinfo |-> g, ping |-> p, version |-> v, otp |-> o,
           piv |-> c, openpgp |-> c, ndef |-> c] :
             i \in HidAnswers({18, 19, HID_REPORT_LEN}),
             g \in HidAnswers({6, 7, HID_REPORT_LEN}),
             p \in HidAnswers({1, HID_REPORT_LEN}),
             v \in HidAnswers({9, 10, HID_REPORT_LEN}),
             o \in HidAnswers({HID_REPORT_LEN}),
             c \in StrayCardAnswers}
    ELSE IF KindOf(tbl, device_id) = "Ccid"
    THEN {[init |-> h, getinfo |-> h, ping |-> h, version |-> h, otp |-> h,
           piv |-> a, openpgp |-> b, ndef |-> c] :
             h \in StrayHidAnswers,
             a \in CardAnswers, b \in CardAnswers, c \in CardAnswers}
    ELSE {[init |-> h, getinfo |-> h, ping |-> h, version |-> h, otp |-> h,
           piv |-> c, openpgp |-> c, ndef |-> c] :
             h \in StrayHidAnswers, c \in StrayCardAnswers}

DetectProtocols ==
    /\ d_call.op = "none"
    /\ \E device_id \in {HidId(1), CcidId(1)} :
       \E tbl \in ProbeTables(device_id) :
       \E io \in ProbeIo(tbl, device_id) :
          /\ d_call' = [op |-> "detect_protocols", id |-> device_id, table |-> tbl, io |-> io]
          /\ d_result' = detect_protocols(tbl, device_id, io)
    /\ UNCHANGED <<dmVars, xVars, iVars, cVars, tVars, pVars, lVars, mVars, gVars>>

DetectOver ==
    /\ d_call.op # "none"
    /\ d_call' = NoProbe
    /\ d_result' = [ok |-> TRUE]
    /\ UNCHANGED <<dmVars, xVars, iVars, cVars, tVars, pVars, lVars, mVars, gVars>>

NextDetect == DetectProtocols \/ DetectOver

SpecDetect == Init /\ [][NextDetect]_vars

(***************************************************************************)
(* main.rs: the message loop and process_request.                          *)
(***************************************************************************)
\* Response::success and Response::error.
success(id) == [id |-> id, status |-> "ok", code |-> "", message |-> ""]
error(id, code, message) == [id |-> id, status |-> "error", code |-> code, message |-> message]

\* The commands of the model: one without an operation behind it, one device
\* operation, one FIDO2 operation (its exchange can panic in ctap2_command)
\* and one the dispatcher does not know.
RequestCommands == {"ping", "openDevice", "fido2SetPin", "formatDisk"}

\* Request ids are u32; 0 is also the id of the INVALID_JSON response.
MaxRequestId == 3

RequestIds == 0..MaxRequestId

\* process_request: request.params tells whether the parameters the handler
\* asks for are there; outcome is what the operation behind the handler does.
process_request(request, outcome) ==
    CASE request.command = "ping" ->
            [panic |-> FALSE, response |-> success(request.id)]
      [] request.command = "openDevice" ->
            IF ~request.params
            THEN [panic |-> FALSE,
                  response |-> error(request.id, "INVALID_PARAMS", "Missing deviceId parameter")]
            ELSE IF outcome = "ok"
            THEN [panic |-> FALSE, response |-> success(request.id)]
            ELSE [panic |-> FALSE,
                  response |-> error(request.id, "DEVICE_OPEN_FAILED", "Failed to open device")]
      [] request.command = "fido2SetPin" ->
            IF ~request.params
            THEN [panic |-> FALSE,
                  response |-> error(request.id, "INVALID_PARAMS", "Missing newPin parameter")]
            ELSE IF outcome = "panic"
            THEN [panic |-> TRUE, response |-> success(request.id)]
            ELSE IF outcome = "ok"
            THEN [panic |-> FALSE, response |-> success(request.id)]
            ELSE [panic |-> FALSE,
                  response |-> error(request.id, "FIDO2_SET_PIN_FAILED", "Failed to set PIN")]
      [] OTHER ->
            [panic |-> FALSE,
             response |-> error(request.id, "UNKNOWN_COMMAND", "Unknown command")]

\* What an operation may do: openDevice returns Ok or Err; set_pin also may
\* panic in the closure of ctap2_command.
Outcomes(command) ==
    CASE command = "openDevice" -> {"ok", "err"}
      [] command = "fido2SetPin" -> {"ok", "err", "panic"}
      [] OTHER -> {"ok"}

\* What stdin gives to one turn of the loop: EOF before the length is read,
\* another read error, a length out of range, EOF or a read error inside the
\* message, text that is not a Request, or a Request.
Stdin == {"eof", "length_error", "bad_length", "message_eof", "message_error",
          "bad_json", "request"}

Turn(stdin, step, request, outcome, out) ==
    [stdin |-> stdin, step |-> step, request |-> request, outcome |-> outcome, out |-> out]

NoRequest == [id |-> 0, command |-> "", params |-> FALSE]

\* One turn of the loop that reads stdin at EOF: the loop breaks.
TurnAtEof ==
    /\ m_state = "loop"
    /\ m_state' = "exited"
    /\ m_stdin' = "eof"
    /\ m_last' = Turn("eof", "break", NoRequest, "none", "none")
    /\ m_out' = <<>>
    /\ UNCHANGED <<dmVars, xVars, iVars, cVars, tVars, pVars, lVars, dVars, gVars>>

\* One turn that ends in `continue` before a request is processed.
TurnSkipped ==
    /\ m_state = "loop"
    /\ m_stdin = "open"
    /\ \E stdin \in {"length_error", "bad_length", "message_eof", "message_error"} :
          /\ m_last' = Turn(stdin, "continue", NoRequest, "none", "none")
          /\ m_stdin' = IF stdin = "message_eof" THEN "eof" ELSE "open"
    /\ m_out' = <<>>
    /\ UNCHANGED m_state
    /\ UNCHANGED <<dmVars, xVars, iVars, cVars, tVars, pVars, lVars, dVars, gVars>>

\* One turn whose message is not a Request: INVALID_JSON with id 0 is
\* written, the result of write_message is dropped.
TurnBadJson ==
    /\ m_state = "loop"
    /\ m_stdin = "open"
    /\ \E write_ok \in BOOLEAN :
          /\ m_last' = Turn("bad_json", "continue", NoRequest, "none",
                            IF write_ok THEN "written" ELSE "write_failed")
          /\ m_out' = IF write_ok THEN <<error(0, "INVALID_JSON", "parse error")>> ELSE <<>>
    /\ UNCHANGED <<m_state, m_stdin>>
    /\ UNCHANGED <<dmVars, xVars, iVars, cVars, tVars, pVars, lVars, dVars, gVars>>

\* One turn with a Request: process_request, then serialise and write; a
\* panic ends the process, a failed write breaks the loop.
TurnRequest ==
    /\ m_state = "loop"
    /\ m_stdin = "open"
    /\ \E id \in RequestIds, command \in RequestCommands, params \in BOOLEAN, write_ok \in BOOLEAN :
       \E outcome \in Outcomes(command) :
          LET request == [id |-> id, command |-> command, params |-> params]
              r == process_request(request, outcome)
          IN  IF r.panic
              THEN /\ m_state' = "panicked"
                   /\ m_last' = Turn("request", "panic", request, outcome, "none")
                   /\ m_out' = <<>>
              ELSE IF write_ok
              THEN /\ m_state' = "loop"
                   /\ m_last' = Turn("request", "responded", request, outcome, "written")
                   /\ m_out' = <<r.response>>
              ELSE /\ m_state' = "exited"
                   /\ m_last' = Turn("request", "break", request, outcome, "write_failed")
                   /\ m_out' = <<>>
    /\ UNCHANGED m_stdin
    /\ UNCHANGED <<dmVars, xVars, iVars, cVars, tVars, pVars, lVars, dVars, gVars>>

\* The host is started again by the browser.
Restart ==
    /\ m_state # "loop"
    /\ m_state' = "loop"
    /\ m_stdin' = "open"
    /\ m_last' = NoTurn
    /\ m_out' = <<>>
    /\ UNCHANGED <<dmVars, xVars, iVars, cVars, tVars, pVars, lVars, dVars, gVars>>

NextMain == TurnAtEof \/ TurnSkipped \/ TurnBadJson \/ TurnRequest \/ Restart

SpecMain == Init /\ [][NextMain]_vars

(***************************************************************************)
(* piv.rs on the DeviceManager: chained exchanges of concurrent callers on *)
(* one card.  transmit_apdu_with_chaining calls with_ccid_card once for    *)
(* the command and once for each GET RESPONSE; each call takes the         *)
(* open_devices mutex, runs transport::transmit_apdu and drops the guard.  *)
(***************************************************************************)
\* Events recorded per behaviour.
MaxWire == 3

Card == CcidId(1)

\* Status words by class: success, more data, any other status; "Err" is a
\* failure of card.transmit.
ChainStatuses == {"9000", "61XX", "6A82", "Err"}

Apdu(t, ins, sw) == [ev |-> "apdu", who |-> t, ins |-> ins, sw |-> sw]
Closed(t) == [ev |-> "close", who |-> t, ins |-> "none", sw |-> "none"]

TableFree == g_locks["open_devices"] = "free"

\* open_device(ccid_1) by a caller outside any exchange; the reader is
\* listed, connect succeeds or fails.
ChainOpen ==
    /\ TableFree
    /\ \E t \in Threads, path_ok \in BOOLEAN :
          /\ g_pc[t] = AtRest
          /\ g_table' = open_device(g_table, Card,
                                    <<[id |-> Card, device_type |-> "Ccid"]>>,
                                    path_ok, FALSE).table
    /\ UNCHANGED <<g_locks, g_pc, g_wire>>
    /\ UNCHANGED <<dmVars, xVars, iVars, cVars, tVars, pVars, lVars, dVars, mVars>>

\* close_device(ccid_1) by a caller outside any exchange.
ChainClose ==
    /\ TableFree
    /\ Len(g_wire) < MaxWire
    /\ \E t \in Threads :
          /\ g_pc[t] = AtRest
          /\ LET r == close_device(g_table, Card)
             IN  /\ g_table' = r.table
                 /\ g_wire' = IF r.result = "Ok" THEN Append(g_wire, Closed(t))
                              ELSE g_wire
    /\ UNCHANGED <<g_locks, g_pc>>
    /\ UNCHANGED <<dmVars, xVars, iVars, cVars, tVars, pVars, lVars, dVars, mVars>>

\* with_ccid_card up to the call of the closure: for the command APDU of a
\* new transmit_apdu_with_chaining call, or for the GET RESPONSE that
\* follows a 61 XX.  When the id is not open the call returns Err and `?`
\* ends the exchange.
ChainLease(t) ==
    /\ g_pc[t].at \in {"idle", "more"}
    /\ g_pc[t].at = "idle" => Len(g_wire) < MaxWire
    /\ TableFree
    /\ LET ins == IF g_pc[t].at = "idle" THEN "COMMAND" ELSE "GET_RESPONSE"
       IN  IF with_ccid_card(g_table, Card) = "call"
           THEN /\ g_locks' = [g_locks EXCEPT !["open_devices"] = t]
                /\ g_pc' = [g_pc EXCEPT ![t] = [at |-> "transmit", ins |-> ins]]
           ELSE /\ g_pc' = [g_pc EXCEPT ![t] = AtRest]
                /\ UNCHANGED g_locks
    /\ UNCHANGED <<g_table, g_wire>>
    /\ UNCHANGED <<dmVars, xVars, iVars, cVars, tVars, pVars, lVars, dVars, mVars>>

\* The closure: card.transmit and the card's answer; the guard is dropped
\* when with_ccid_card returns.  61 XX makes the loop build a GET RESPONSE,
\* every other outcome ends the exchange.
ChainTransmit(t) ==
    /\ g_pc[t].at = "transmit"
    /\ Len(g_wire) < MaxWire
    /\ \E sw \in ChainStatuses :
          /\ g_wire' = Append(g_wire, Apdu(t, g_pc[t].ins, sw))
          /\ g_pc' = [g_pc EXCEPT ![t] =
                         IF sw = "61XX" THEN [at |-> "more"] ELSE AtRest]
    /\ g_locks' = [g_locks EXCEPT !["open_devices"] = "free"]
    /\ UNCHANGED g_table
    /\ UNCHANGED <<dmVars, xVars, iVars, cVars, tVars, pVars, lVars, dVars, mVars>>

NextChain ==
    \/ ChainOpen
    \/ ChainClose
    \/ \E t \in Threads : ChainLease(t)
    \/ \E t \in Threads : ChainTransmit(t)

SpecChain == Init /\ [][NextChain]_vars

(***************************************************************************)
(* device.rs: the three mutexes of the DeviceManager, lock by lock.  Every *)
(* method starts with self.open_devices.lock(); open_device alone takes a  *)
(* second mutex, hid_api or pcsc_context by the device type, while it      *)
(* holds the first.  Guards are dropped when the method returns.           *)
(***************************************************************************)
\* The mutex open_device takes for the OS open, with one that is the table's.
context_lock_is_table(device_type) == "open_devices"

\* The mutex open_device takes for the OS open.
context_lock(device_type) ==
    IF device_type = "Hid" THEN "hid_api" ELSE "pcsc_context"

LockIds == {HidId(1), Card}
TypeOf(id) == IF id = HidId(1) THEN "Hid" ELSE "Ccid"
Methods == {"open_device", "close_device", "with_hid_device", "with_ccid_card"}

At(t, at) == [g_pc[t] EXCEPT !.at = at]
Unlocked(t) == [l \in Mutexes |-> IF g_locks[l] = t THEN "free" ELSE g_locks[l]]

\* A caller enters a method and reaches self.open_devices.lock().
Enter(t) ==
    /\ g_pc[t] = AtRest
    /\ \E op \in Methods, id \in LockIds :
          g_pc' = [g_pc EXCEPT ![t] = [at |-> "wait_table", op |-> op, id |-> id,
                                       lock |-> "open_devices"]]
    /\ UNCHANGED <<g_table, g_locks, g_wire>>
    /\ UNCHANGED <<dmVars, xVars, iVars, cVars, tVars, pVars, lVars, dVars, mVars>>

\* lock() returns when the mutex is free.
LockTable(t) ==
    /\ g_pc[t].at = "wait_table"
    /\ g_locks["open_devices"] = "free"
    /\ g_locks' = [g_locks EXCEPT !["open_devices"] = t]
    /\ g_pc' = [g_pc EXCEPT ![t] = At(t, "table")]
    /\ UNCHANGED <<g_table, g_wire>>
    /\ UNCHANGED <<dmVars, xVars, iVars, cVars, tVars, pVars, lVars, dVars, mVars>>

\* The method under the table lock, up to its return, to the call of the
\* closure or, in open_device, to the lock() of the second mutex.  listed is
\* whether list_devices shows the id.
TableBody(t) ==
    /\ g_pc[t].at = "table"
    /\ LET id == g_pc[t].id
           op == g_pc[t].op
           leave == /\ g_pc' = [g_pc EXCEPT ![t] = AtRest]
                    /\ g_locks' = Unlocked(t)
       IN  CASE op = "close_device" ->
                   /\ g_table' = close_device(g_table, id).table
                   /\ leave
             [] op = "with_hid_device" ->
                   /\ UNCHANGED g_table
                   /\ IF with_hid_device(g_table, id) = "call"
                      THEN g_pc' = [g_pc EXCEPT ![t] = At(t, "callback")]
                           /\ UNCHANGED g_locks
                      ELSE leave
             [] op = "with_ccid_card" ->
                   /\ UNCHANGED g_table
                   /\ IF with_ccid_card(g_table, id) = "call"
                      THEN g_pc' = [g_pc EXCEPT ![t] = At(t, "callback")]
                           /\ UNCHANGED g_locks
                      ELSE leave
             [] op = "open_device" ->
                   /\ UNCHANGED g_table
                   /\ \E listed \in BOOLEAN :
                         LET devs == IF listed
                                     THEN <<[id |-> id, device_type |-> TypeOf(id)]>>
                                     ELSE <<>>
                             r == open_device(g_table, id, devs, TRUE, TRUE)
                         IN  IF r.result \in {"AlreadyOpen", "NotFound"}
                             THEN leave
                             ELSE /\ g_pc' = [g_pc EXCEPT ![t] =
                                        [g_pc[t] EXCEPT !.at = "wait_context",
                                                        !.lock = context_lock(TypeOf(id))]]
                                  /\ UNCHANGED g_locks
    /\ UNCHANGED g_wire
    /\ UNCHANGED <<dmVars, xVars, iVars, cVars, tVars, pVars, lVars, dVars, mVars>>

\* self.hid_api.lock() or self.pcsc_context.lock() in open_device.
LockContext(t) ==
    /\ g_pc[t].at = "wait_context"
    /\ g_locks[g_pc[t].lock] = "free"
    /\ g_locks' = [g_locks EXCEPT ![g_pc[t].lock] = t]
    /\ g_pc' = [g_pc EXCEPT ![t] = At(t, "context")]
    /\ UNCHANGED <<g_table, g_wire>>
    /\ UNCHANGED <<dmVars, xVars, iVars, cVars, tVars, pVars, lVars, dVars, mVars>>

\* The OS open and the insert; open_device returns and both guards go.
OpenFinish(t) ==
    /\ g_pc[t].at = "context"
    /\ \E path_ok \in BOOLEAN, fallback_ok \in BOOLEAN :
          g_table' = open_device(g_table, g_pc[t].id,
                                 <<[id |-> g_pc[t].id, device_type |-> TypeOf(g_pc[t].id)]>>,
                                 path_ok, fallback_ok).table
    /\ g_pc' = [g_pc EXCEPT ![t] = AtRest]
    /\ g_locks' = Unlocked(t)
    /\ UNCHANGED g_wire
    /\ UNCHANGED <<dmVars, xVars, iVars, cVars, tVars, pVars, lVars, dVars, mVars>>

\* The closure's device I/O returns; with_* returns and the guard goes.
ClosureReturn(t) ==
    /\ g_pc[t].at = "callback"
    /\ g_pc' = [g_pc EXCEPT ![t] = AtRest]
    /\ g_locks' = Unlocked(t)
    /\ UNCHANGED <<g_table, g_wire>>
    /\ UNCHANGED <<dmVars, xVars, iVars, cVars, tVars, pVars, lVars, dVars, mVars>>

NextLocks ==
    \E t \in Threads :
        \/ Enter(t)
        \/ LockTable(t)
        \/ TableBody(t)
        \/ LockContext(t)
        \/ OpenFinish(t)
        \/ ClosureReturn(t)

SpecLocks == Init /\ [][NextLocks]_vars

(***************************************************************************)
(* piv.rs: transmit_apdu_with_chaining turn by turn, for a card that may   *)
(* answer 61 XX any number of times.  One exchange at a time, as the       *)
(* dispatcher calls it; the card may be opened and closed meanwhile.  Of   *)
(* the loop's locals the model keeps `remaining` and the number of GET     *)
(* RESPONSE APDUs issued, which it counts up to MaxIssued ("MaxIssued or   *)
(* more").                                                                 *)
(***************************************************************************)
MaxIssued == 3

\* What card.transmit does with an APDU: a failure, or a status word.
LoopReplies ==
    {[card_ok |-> FALSE, sw1 |-> 0, sw2 |-> 0],
     [card_ok |-> TRUE, sw1 |-> 144, sw2 |-> 0],
     [card_ok |-> TRUE, sw1 |-> 106, sw2 |-> 130],
     [card_ok |-> TRUE, sw1 |-> 105, sw2 |-> 130]}
        \cup {[card_ok |-> TRUE, sw1 |-> 97, sw2 |-> le] : le \in {0, 16, U8_MAX}}

InLoop(command, remaining, issued) ==
    [at |-> "more", command |-> command, remaining |-> remaining, issued |-> issued]
Out(ok, command, issued) ==
    [at |-> IF ok THEN "ok" ELSE "err", command |-> command, remaining |-> 0,
     issued |-> issued]

\* The call up to the loop: the command APDU and the test of its status.
LoopCall(t) ==
    /\ \A u \in Threads : g_pc[u] = AtRest
    /\ \E command \in {INS_SELECT, INS_GET_DATA}, reply \in LoopReplies :
          g_pc' = [g_pc EXCEPT ![t] =
              IF with_ccid_card(g_table, Card) # "call" \/ ~reply.card_ok
              THEN Out(FALSE, command, 0)
              ELSE IF reply.sw1 = 97 THEN InLoop(command, reply.sw2, 0)
              ELSE IF reply.sw1 = 144 /\ reply.sw2 = 0 THEN Out(TRUE, command, 0)
              ELSE IF reply.sw1 = 106 /\ reply.sw2 = 130 THEN Out(TRUE, command, 0)
              ELSE Out(FALSE, command, 0)]
    /\ UNCHANGED <<g_table, g_locks, g_wire>>
    /\ UNCHANGED <<dmVars, xVars, iVars, cVars, tVars, pVars, lVars, dVars, mVars>>

\* One turn of the loop: GET RESPONSE with Le = remaining, then break on
\* 90 00, go on with the new sw2 on 61 XX, return Err otherwise.
LoopTurn(t) ==
    /\ g_pc[t].at = "more"
    /\ \E reply \in LoopReplies :
          LET c == g_pc[t].command
              n == Min(g_pc[t].issued + 1, MaxIssued)
          IN  g_pc' = [g_pc EXCEPT ![t] =
                  IF with_ccid_card(g_table, Card) # "call" THEN Out(FALSE, c, g_pc[t].issued)
                  ELSE IF ~reply.card_ok THEN Out(FALSE, c, n)
                  ELSE IF reply.sw1 = 144 /\ reply.sw2 = 0 THEN Out(TRUE, c, n)
                  ELSE IF reply.sw1 = 97 THEN InLoop(c, reply.sw2, n)
                  ELSE Out(FALSE, c, n)]
    /\ UNCHANGED <<g_table, g_locks, g_wire>>
    /\ UNCHANGED <<dmVars, xVars, iVars, cVars, tVars, pVars, lVars, dVars, mVars>>

\* The caller takes the value returned.
LoopReturn(t) ==
    /\ g_pc[t].at \in {"ok", "err"}
    /\ g_pc' = [g_pc EXCEPT ![t] = AtRest]
    /\ UNCHANGED <<g_table, g_locks, g_wire>>
    /\ UNCHANGED <<dmVars, xVars, iVars, cVars, tVars, pVars, lVars, dVars, mVars>>

NextLoop ==
    \/ ChainOpen
    \/ ChainClose
    \/ \E t \in Threads : LoopCall(t)
    \/ \E t \in Threads : LoopTurn(t)
    \/ \E t \in Threads : LoopReturn(t)

\* A caller inside the loop runs its next turn.
SpecLoop == Init /\ [][NextLoop]_vars /\ \A t \in Threads : WF_vars(LoopTurn(t))

(***************************************************************************)
(* Properties of the DeviceManager (checked under Spec).                   *)
(***************************************************************************)

\* C1: an id is in the open-device table iff an open_device(id) returned
\* success and no close_device(id) has returned success since; an open that
\* fails leaves the table as it was.
C1_TableIffOpened ==
    /\ DOMAIN open_devices = opened
    /\ \A id \in DOMAIN open_devices : open_devices[id] \in {"Hid", "Ccid"}
    /\ (last.op = "open" /\ last.result # "Ok") =>
           (last.after = last.before /\ ~last.others_changed)
    /\ (last.op = "open" /\ last.result = "Ok") =>
           (last.before = NoKind /\ last.after # NoKind /\ ~last.others_changed)

C1_Witness ==
    /\ last.op = "open"
    /\ last.result = "OpenFailed"
    /\ opened # {}

\* C2: open_device of an id that is in the table fails with the already-open
\* error, without enumerating and without an OS open, and changes nothing.
C2_AlreadyOpenFirst ==
    (last.op = "open" /\ last.before # NoKind) =>
        /\ last.result = "AlreadyOpen"
        /\ ~last.enumerated
        /\ last.os_opens = 0
        /\ last.after = last.before
        /\ ~last.others_changed

C2_Witness ==
    /\ last.op = "open"
    /\ last.before # NoKind

\* C3: close_device succeeds exactly when the id is in the table and then
\* the id is absent; otherwise it fails with the not-open error and the table
\* is unchanged.
C3_CloseExactlyWhenOpen ==
    last.op = "close" =>
        /\ last.result = "Ok" <=> last.before # NoKind
        /\ last.result = "Ok" => last.after = NoKind
        /\ last.result # "Ok" => (last.result = "NotOpen" /\ last.after = last.before)
        /\ ~last.others_changed

C3_Witness ==
    /\ last.op = "close"
    /\ last.result = "Ok"
    /\ opened # {}

\* C4: with_hid_device calls f only on an HID entry, with_ccid_card only on
\* a CCID entry; an entry of the other kind gives the wrong-kind error and a
\* missing entry the not-open error, f not being called.
C4_TypedLease ==
    /\ \A t \in Threads :
          /\ lease[t].op = "with_hid" => KindOf(open_devices, lease[t].id) = "Hid"
          /\ lease[t].op = "with_ccid" => KindOf(open_devices, lease[t].id) = "Ccid"
    /\ last.op \in {"with_hid", "with_ccid"} =>
          LET own == IF last.op = "with_hid" THEN "Hid" ELSE "Ccid"
          IN  /\ last.called_f <=> last.before = own
              /\ last.before = NoKind => last.result = "NotOpen"
              /\ last.before \notin {own, NoKind} => last.result = "WrongKind"

C4_Witness ==
    /\ last.op = "with_hid"
    /\ last.before = "Ccid"
    /\ last.result = "WrongKind"

\* C5: at most one callback of with_hid_device/with_ccid_card is running at
\* any time, and the table does not change while a callback is running.
C5_ExclusiveLease ==
    [][/\ Cardinality({t \in Threads : ~Idle(t)}') <= 1
       /\ (\E t \in Threads : ~Idle(t) /\ lease'[t] = lease[t]) =>
              open_devices' = open_devices]_vars

C5_Witness ==
    /\ \E t \in Threads : ~Idle(t)
    /\ Cardinality(DOMAIN open_devices) >= 2
    /\ last.called_f

\* C6: after an enumeration (list_devices, or the one inside open_device)
\* the table holds no id that the enumeration did not list.
C6_NoStaleEntry == ~last.stale

(***************************************************************************)
(* Properties of the CTAPHID request framing (checked under SpecFrame).    *)
(***************************************************************************)
Done == x_state \in {"sent", "panic"}

\* C7: every request puts on the wire an initialization packet of 64 octets:
\* CID, CMD|0x80, BCNTH, BCNTL, then the command byte and at most 56 request
\* octets; the rest goes into continuation packets.
C7_InitPacketAlways ==
    Done =>
        /\ Len(x_written) >= 1
        /\ Len(x_written[1]) = 64
        /\ SubSeq(x_written[1], 1, 4) = x_cid
        /\ x_written[1][5] = CTAPHID_CBOR + 128
        /\ x_written[1][6] * 256 + x_written[1][7] = Len(x_data) + 1
        /\ x_written[1][8] = x_command
        /\ \A k \in 2..Len(x_written) : Len(x_written[k]) = 64

\* C8: with L = |request-bytes| + 1, the exchange emits
\* 1 + ceil(max(0, L - 56) / 59) packets.
C8_PacketCount ==
    Done =>
        LET L == Len(x_data) + 1
            over == IF L > 56 THEN L - 56 ELSE 0
        IN  Len(x_written) = 1 + (over + 58) \div 59

RECURSIVE PayloadAreas(_, _)
PayloadAreas(w, k) ==
    IF k > Len(w) THEN <<>>
    ELSE SubSeq(w[k], IF k = 1 THEN 8 ELSE 6, Len(w[k])) \o PayloadAreas(w, k + 1)

\* C9: the payload areas of the emitted packets, concatenated and cut to the
\* announced length, are the command byte followed by the request bytes, and
\* the announced length is |request-bytes| + 1.
C9_LosslessFragments ==
    Done =>
        /\ Len(x_written) >= 1
        /\ LET announced == x_written[1][6] * 256 + x_written[1][7]
               all == PayloadAreas(x_written, 1)
           IN  /\ announced = Len(x_data) + 1
               /\ announced <= Len(all)
               /\ SubSeq(all, 1, announced) = <<x_command>> \o x_data

\* The continuation packets a request of n octets takes: 57 octets go with
\* the initialization packet, 59 with every continuation packet.
ContsNeeded(n) == IF n > 57 THEN (n - 57 + 58) \div 59 ELSE 0

\* C30: every continuation packet emitted has a sequence octet with the 0x80
\* bit clear, and for every request length the k-th continuation packet
\* (k from 0) is emitted with sequence number k.
C30_SequenceOctets ==
    Done =>
        /\ \A j \in 2..Len(x_written) :
              x_written[j][5] < 128 /\ x_written[j][5] = j - 2
        /\ \A k \in 0..(ContsNeeded(Len(x_data)) - 1) :
              /\ Len(x_written) >= k + 2
              /\ x_written[k + 2][5] = k

(***************************************************************************)
(* Properties of channel allocation (checked under SpecInit).              *)
(***************************************************************************)

\* C10: a channel id is returned only if the reply has at least 19 octets and
\* its octets 8..16 equal the nonce sent, and it is then reply octets 15..19;
\* a shorter reply gives the invalid-INIT error and a differing nonce the
\* nonce-mismatch error, no channel id being returned.
C10_ChannelOnlyOnEcho ==
    i_state = "returned" =>
        LET reply == i_reply.bytes
            long == Len(reply) >= 19
            echoed == long /\ \A k \in 1..8 : reply[8 + k] = i_nonce[k]
        IN  /\ i_result.ok =>
                /\ i_reply.kind = "data"
                /\ echoed
                /\ i_result.cid = <<reply[16], reply[17], reply[18], reply[19]>>
                /\ i_written = <<init_packet(i_nonce)>>
            /\ (i_reply.kind = "data" /\ ~long) =>
                (~i_result.ok /\ i_result.err = "InvalidInit" /\ i_result.cid = <<>>)
            /\ (i_reply.kind = "data" /\ long /\ ~echoed) =>
                (~i_result.ok /\ i_result.err = "NonceMismatch" /\ i_result.cid = <<>>)
            /\ ~i_result.ok => i_result.cid = <<>>

C10_Witness ==
    /\ i_state = "returned"
    /\ i_result.ok
    /\ Len(i_reply.bytes) = 19
    /\ i_nonce[1] # i_nonce[8]

\* An INIT reply in the CTAPHID layout: a full report with 7 header octets
\* (broadcast channel, INIT, 17 payload octets), the nonce at offsets 7..15
\* and the new channel id at offsets 15..19.
LayoutReply ==
    /\ i_reply.kind = "data"
    /\ Len(i_reply.bytes) = HID_REPORT_LEN
    /\ SubSeq(i_reply.bytes, 1, 7) = <<255, 255, 255, 255, CTAPHID_INIT + TYPE_INIT, 0, 17>>
    /\ SubSeq(i_reply.bytes, 8, 15) = i_nonce

\* C36: channel allocation returns the newly allocated channel id for every
\* nonce when the INIT reply follows the CTAPHID packet layout (nonce echoed
\* at offsets 7..15, new CID at offsets 15..19).
C36_LayoutReplyAccepted ==
    (i_state = "returned" /\ LayoutReply) =>
        /\ i_result.ok
        /\ i_result.cid = SubSeq(i_reply.bytes, 16, 19)

(***************************************************************************)
(* Properties of the response half of ctap2_command (under SpecFrame).     *)
(***************************************************************************)
\* The payload areas of the reports delivered from report k on: octets 7..63
\* of the first report, octets 5..63 of every later one (offsets from 0).
RECURSIVE ReplyAreas(_, _)
ReplyAreas(reads, k) ==
    IF k > Len(reads) THEN <<>>
    ELSE SubSeq(reads[k].bytes, IF k = 1 THEN 8 ELSE 6, Len(reads[k].bytes))
            \o ReplyAreas(reads, k + 1)

\* The length the first report delivered announces (BCNTH, BCNTL).
Announced == x_reads[1].bytes[6] * 256 + x_reads[1].bytes[7]

\* The request was written and the reply is a CBOR response message on the
\* channel, in full reports, as many as the announced length takes.
ConformingReply ==
    /\ x_state = "sent"
    /\ Len(x_reads) >= 1
    /\ \A k \in 1..Len(x_reads) :
          /\ x_reads[k].read_ok
          /\ Len(x_reads[k].bytes) = 64
          /\ SubSeq(x_reads[k].bytes, 1, 4) = x_cid
          /\ x_reads[k].bytes[5] = IF k = 1 THEN CTAPHID_CBOR + TYPE_INIT ELSE k - 2
    /\ Announced <= 57 + 59 * (Len(x_reads) - 1)
    /\ Len(x_reads) > 1 => Announced > 57 + 59 * (Len(x_reads) - 2)

ReplyPayload == SubSeq(ReplyAreas(x_reads, 1), 1, Announced)

\* C11: the body returned is the reassembled response payload (the announced
\* number of octets from the initialization response and its continuation
\* packets, in order) without its first octet; the exchange succeeds only when
\* that octet is 0, fails with an error carrying s for a status s # 0, and
\* fails on an empty payload.
C11_BodyIsPayloadAfterStatus ==
    /\ ConformingReply =>
          /\ ReplyPayload = <<>> => x_result = Failed("EmptyResponse", 0)
          /\ (ReplyPayload # <<>> /\ ReplyPayload[1] = 0) =>
                x_result = Returned(SubSeq(ReplyPayload, 2, Len(ReplyPayload)))
          /\ (ReplyPayload # <<>> /\ ReplyPayload[1] # 0) =>
                x_result = Failed("Ctap2Error", ReplyPayload[1])
    /\ x_result.kind = "ok" =>
          /\ Announced >= 1
          /\ ReplyAreas(x_reads, 1)[1] = 0
          /\ x_result.body = SubSeq(ReplyAreas(x_reads, 1), 2, Announced)

C11_Witness ==
    /\ ConformingReply
    /\ Len(x_reads) = 3
    /\ Announced = 117
    /\ x_result.kind = "ok"
    /\ Len(x_result.body) = 116

\* The request was written and the report read first is a KEEPALIVE.
KeepaliveFirst ==
    /\ x_state = "sent"
    /\ Len(x_reads) >= 2
    /\ x_reads[1].read_ok
    /\ Len(x_reads[1].bytes) >= 7
    /\ x_reads[1].bytes[5] = CTAPHID_KEEPALIVE

\* C28: when the first response packet is a KEEPALIVE the exchange reads one
\* more packet and takes the announced length and the initial payload from
\* that packet: what it returns is what it returns for the same packets
\* without the KEEPALIVE.
C28_KeepaliveSkipped ==
    KeepaliveFirst => x_result = receive_response(x_cid, Tail(x_reads))

\* The request was written and the report read first is the start of a
\* response message: a full report, neither ERROR nor KEEPALIVE.
ResponseStarted ==
    /\ x_state = "sent"
    /\ Len(x_reads) >= 1
    /\ x_reads[1].read_ok
    /\ Len(x_reads[1].bytes) = 64
    /\ x_reads[1].bytes[5] \notin {CTAPHID_ERROR, CTAPHID_KEEPALIVE}

\* The continuation packets the announced length takes.
ContsAnnounced == IF Announced > 57 THEN (Announced - 57 + 58) \div 59 ELSE 0

\* Read k delivered a report with a CID and a sequence octet.
ContDelivered(k) ==
    /\ k <= Len(x_reads)
    /\ x_reads[k].read_ok
    /\ Len(x_reads[k].bytes) >= 5

\* Read k delivered a full report.
ContFull(k) == ContDelivered(k) /\ Len(x_reads[k].bytes) = 64

ContCid(k) == SubSeq(x_reads[k].bytes, 1, 4)
ContSeq(k) == x_reads[k].bytes[5]

\* Read k delivered the continuation packet the exchange expects there.
ContInOrder(k) == ContDelivered(k) /\ ContCid(k) = x_cid /\ ContSeq(k) = k - 2

\* C29: a body is returned only if every continuation packet consumed had the
\* CID of the request and the packets had the sequence numbers 0, 1, 2, ..;
\* the first packet with another CID ends the exchange with the CID-mismatch
\* error, the first with another sequence number with the sequence-mismatch
\* error, and no packet is read after it.
C29_ContinuationsVerified ==
    ResponseStarted =>
        /\ x_taken <= 1 + ContsAnnounced
        /\ x_result.kind = "ok" =>
              /\ x_taken = 1 + ContsAnnounced
              /\ \A k \in 2..x_taken : ContInOrder(k)
        /\ \A k \in 2..(1 + ContsAnnounced) :
              ((\A j \in 2..(k - 1) : ContInOrder(j) /\ ContFull(j)) /\ ContDelivered(k)) =>
                  /\ ContCid(k) # x_cid =>
                        x_result = Failed("CidMismatch", 0) /\ x_taken = k
                  /\ (ContCid(k) = x_cid /\ ContSeq(k) # k - 2) =>
                        x_result = Failed("SequenceMismatch", 0) /\ x_taken = k

\* The first of two continuation packets has another CID: the exchange ends
\* there, the second one is not read.
C29_Witness ==
    /\ ResponseStarted
    /\ Len(x_reads) = 3
    /\ ContDelivered(2) /\ ContCid(2) # x_cid
    /\ ContInOrder(3)
    /\ x_result = Failed("CidMismatch", 0)
    /\ x_taken = 2

\* C35: for every sequence of received reports the exchange ends by
\* returning a body or an error value; it never reads past the end of a
\* report: not for an ERROR packet of exactly 7 octets, an initialization
\* response shorter than 7 + its announced payload, or a continuation packet
\* shorter than the chunk it is expected to carry.
C35_NoReadPastReport ==
    x_state = "sent" => x_result.kind \in {"ok", "err"}

(***************************************************************************)
(* Properties of the PIN and credential operations (under SpecCtap).       *)
(***************************************************************************)
DeviceIo == {i \in 1..Len(c_trace) : c_trace[i].kind = "io"}
Sent(name) == {i \in 1..Len(c_trace) : c_trace[i].ev = name}

\* C12: list_credentials called without a PIN returns the empty list and
\* performs no HID write or read at all, not even the INIT exchange.
C12_NoPinNoIo ==
    (c_call.op = "list_credentials" /\ ~c_call.has_pin) =>
        /\ c_result = Returned(<<>>)
        /\ DeviceIo = {}

\* C13: set_pin, and change_pin for the new PIN, with a PIN shorter than 4 or
\* longer than 63 octets fail with the invalid-parameter error before any
\* device I/O and before any cryptographic operation.
C13_PinLengthFirst ==
    (c_call.op \in {"set_pin", "change_pin"} /\ c_call.new_pin_len \notin 4..63) =>
        /\ c_result.kind = "err"
        /\ c_result.err = IF c_call.new_pin_len < 4 THEN "PinTooShort" ELSE "PinTooLong"
        /\ c_trace = <<>>

C13_Witness ==
    /\ c_call.op = "change_pin"
    /\ c_call.current_pin_len = 4
    /\ c_call.new_pin_len = 64
    /\ c_result.err = "PinTooLong"

C31_AllRelyingParties ==
    (/\ c_call.op = "list_credentials"
     /\ c_call.has_pin
     /\ c_call.rps >= 1
     /\ c_call.total <= MaxTotal
     /\ \A i \in 1..Len(c_trace) : c_trace[i].answer = 0) =>
        /\ Cardinality(Sent("ENUMERATE_CREDENTIALS_BEGIN")) = c_call.rps
        /\ c_result.kind = "ok"
        /\ Len(c_result.body) = c_call.rps * c_call.total

\* The steps of an operation that are key agreement, hashing or encryption.
CryptoSteps ==
    {i \in 1..Len(c_trace) : c_trace[i].kind = "crypto"}
        \cup Sent("GET_KEY_AGREEMENT")

\* C32: every PIN given to a PIN/UV operation is length-checked (4..63)
\* before any cryptographic operation: a current PIN of change_pin, or a PIN
\* of list_credentials or delete_credential, outside the range is rejected
\* before key agreement, hashing or encryption.
C32_EveryPinLengthFirst ==
    /\ (c_call.op = "change_pin" /\ c_call.current_pin_len \notin 4..63) =>
            (c_result.kind = "err" /\ CryptoSteps = {})
    /\ (/\ c_call.op \in {"list_credentials", "delete_credential"}
        /\ c_call.has_pin
        /\ c_call.pin_len \notin 4..63) =>
            (c_result.kind = "err" /\ CryptoSteps = {})

\* The names of the identifiers of arr that get_info names, in the order of
\* their first occurrence, each once.
RECURSIVE NamedInOrder(_, _, _)
NamedInOrder(arr, n, names) ==
    IF n > Len(arr) THEN names
    ELSE LET v == arr[n]
             name == IF v.t # "int" THEN ""
                     ELSE CASE v.val = -7 -> "ES256"
                            [] v.val = -8 -> "EdDSA"
                            [] v.val = -257 -> "RS256"
                            [] OTHER -> ""
         IN  NamedInOrder(arr, n + 1,
                 IF name = "" \/ (\E k \in 1..Len(names) : names[k] = name)
                 THEN names ELSE Append(names, name))

\* C27: get_info maps the alg identifiers -7, -8, -257 of reply field 0x0A to
\* ES256, EdDSA, RS256: when one of them occurs the list has a name exactly
\* when its identifier occurs, once, in order of first occurrence; when the
\* field is missing the list is [ES256].
C27_AlgorithmsDecoded ==
    (c_call.op = "get_info" /\ c_result.kind = "ok") =>
        /\ c_call.reply.field = "missing" => c_result.body = <<"ES256">>
        /\ (c_call.reply.field = "array" /\ NamedInOrder(c_call.reply.algs, 1, <<>>) # <<>>) =>
              c_result.body = NamedInOrder(c_call.reply.algs, 1, <<>>)

(***************************************************************************)
(* Properties of the PIV client (under SpecPiv).                           *)
(***************************************************************************)
\* Status word and body of a card reply.
Sw(reply) == SubSeq(reply.response, Len(reply.response) - 1, Len(reply.response))
BodyOf(reply) == SubSeq(reply.response, 1, Len(reply.response) - 2)
Answered(reply) == reply.card_ok /\ Len(reply.response) >= 2
MoreData(reply) == Answered(reply) /\ Sw(reply)[1] = 97

RECURSIVE Bodies(_, _)
Bodies(replies, k) ==
    IF k > Len(replies) THEN <<>> ELSE BodyOf(replies[k]) \o Bodies(replies, k + 1)

Chaining == p_call.op = "transmit_apdu_with_chaining" /\ p_wire # <<>>

\* C17: when a PIV command is answered with 61 XX, a GET RESPONSE
\* 00 C0 00 00 XX follows every 61 XX reply, XX being SW2 of that reply,
\* until a reply 90 00, and the exchange returns the bodies of the initial
\* reply and of every GET RESPONSE reply concatenated in order.
C17_ChainingConcatenates ==
    Chaining =>
        LET replies == p_call.replies
        IN  /\ p_wire[1] = p_call.apdu
            /\ \A k \in 1..Len(replies) :
                  (\A j \in 1..k : MoreData(replies[j])) =>
                      /\ Len(p_wire) >= k + 1
                      /\ p_wire[k + 1] = <<0, 192, 0, 0, Sw(replies[k])[2]>>
            /\ \A k \in 2..Len(replies) :
                  ((\A j \in 1..(k - 1) : MoreData(replies[j]))
                      /\ Answered(replies[k]) /\ Sw(replies[k]) = <<144, 0>>) =>
                      /\ Len(p_wire) = k
                      /\ p_result.ok
                      /\ p_result.data = Bodies(SubSeq(replies, 1, k), 1)

C17_Witness ==
    /\ Chaining
    /\ Len(p_call.replies) = 3
    /\ \A k \in 1..3 : Answered(p_call.replies[k])
    /\ Sw(p_call.replies[1]) = <<97, 64>> /\ Len(BodyOf(p_call.replies[1])) = 64
    /\ Sw(p_call.replies[2]) = <<97, 32>> /\ Len(BodyOf(p_call.replies[2])) = 32
    /\ Sw(p_call.replies[3]) = <<144, 0>> /\ Len(BodyOf(p_call.replies[3])) = 32
    /\ p_result.ok
    /\ Len(p_result.data) = 128
    /\ Len(p_log) = 3

\* The slots of a get_piv_data call whose exchange ended with the status 6A 82.
SlotsNotFound ==
    {n \in 1..4 :
        LET replies == p_call.cards[3 + n]
        IN  /\ \A k \in 1..(Len(replies) - 1) : MoreData(replies[k])
            /\ Answered(replies[Len(replies)])
            /\ Sw(replies[Len(replies)]) = <<106, 130>>}

\* C18: the status 6A 82 is never surfaced as an error by the chaining
\* exchange, whether it answers the initial command or a GET RESPONSE: the
\* exchange yields an empty body, and get_piv_data records the slot with
\* present = false.
C18_NotFoundIsNoError ==
    /\ (Chaining /\ p_log # <<>> /\ p_log[Len(p_log)].sw1 = 106
                                 /\ p_log[Len(p_log)].sw2 = 130) =>
          /\ p_result.ok
          /\ p_result.data = <<>>
    /\ (p_call.op = "get_piv_data" /\ p_result.ok) =>
          \A n \in SlotsNotFound : ~p_result.info.certificates[n].present

\* The SELECT of a get_piv_data call reached the card and its exchange ended
\* with the status 90 00.
SelectEndedOk ==
    /\ p_call.op = "get_piv_data"
    /\ p_wire # <<>>
    /\ LET replies == p_call.cards[1]
       IN  /\ \A k \in 1..(Len(replies) - 1) : MoreData(replies[k])
           /\ Answered(replies[Len(replies)])
           /\ Sw(replies[Len(replies)]) = <<144, 0>>

\* The data has an entry with tag 53 whose value has an entry with tag 70.
NestedCertificate(data) ==
    \E i \in 1..Len(parse_tlv(data)) :
        /\ parse_tlv(data)[i].tag = <<83>>
        /\ \E j \in 1..Len(parse_tlv(parse_tlv(data)[i].value)) :
              parse_tlv(parse_tlv(data)[i].value)[j].tag = <<112>>

\* C38: whenever the PIV SELECT ends with status 90 00, get_piv_data returns
\* success with selected = true and exactly four certificate records in the
\* order 9A, 9E, 9C, 9D, whatever each later GET DATA does; a record has
\* present = true only if its reply contained tag 70 nested in tag 53.
C38_FourRecords ==
    SelectEndedOk =>
        /\ p_result.ok
        /\ p_result.info.selected
        /\ Len(p_result.info.certificates) = 4
        /\ [n \in 1..4 |-> p_result.info.certificates[n].slot] = <<"9A", "9E", "9C", "9D">>
        /\ \A n \in 1..4 :
              p_result.info.certificates[n].present =>
                  NestedCertificate(Bodies(p_call.cards[3 + n], 1))

\* A call where the first slot's GET DATA fails in the transport, the second
\* is answered 6A 82, the third holds no certificate and the fourth one.
C38_Witness ==
    /\ SelectEndedOk
    /\ p_result.ok
    /\ p_call.cards[4] = <<NoReply>>
    /\ p_call.cards[5] = <<Reply(<<>>, 106, 130)>>
    /\ p_call.cards[6] = <<Reply(WithoutCert, 144, 0)>>
    /\ p_call.cards[7] = <<Reply(WithCert, 144, 0)>>
    /\ [n \in 1..4 |-> p_result.info.certificates[n].present] = <<FALSE, FALSE, FALSE, TRUE>>

\* C19: the activity log get_piv_data returns has exactly one entry for every
\* APDU issued during the call, in issue order, with the SW1/SW2 of its reply
\* and status OK for 90 00, MORE_DATA for 61 XX, ERROR otherwise.
C19_LogPerApdu ==
    (p_call.op = "get_piv_data" /\ p_result.ok) =>
        /\ Len(p_log) = Len(p_wire)
        /\ \A k \in 1..Len(p_log) :
              /\ p_log[k].command_hex = p_wire[k]
              /\ p_log[k].status =
                    IF <<p_log[k].sw1, p_log[k].sw2>> = <<144, 0>> THEN "OK"
                    ELSE IF p_log[k].sw1 = 97 THEN "MORE_DATA" ELSE "ERROR"
              /\ <<p_log[k].sw1, p_log[k].sw2>> =
                    SubSeq(p_log[k].response_hex, Len(p_log[k].response_hex) - 1,
                           Len(p_log[k].response_hex))

\* C26: for an object 53 len 70 clen cert, parse_tlv gives the outer entry
\* 53, parse_tlv of its value gives an entry 70 whose value is cert, and
\* extract_certificate_from_data returns exactly cert, with lengths in the
\* short form and in the 0x81, 0x82 and 0x83 forms.
C26_CertificateRoundTrip ==
    p_call.op = "parse_tlv" =>
        /\ Len(p_result.outer) = 1
        /\ p_result.outer[1].tag = <<83>>
        /\ p_result.inner = <<[tag |-> <<112>>, value |-> p_call.cert]>>
        /\ p_result.certificate = <<p_call.cert>>

\* A certificate of 300 octets under a 3-octet length inside a 2-octet length.
C26_Witness ==
    /\ p_call.op = "parse_tlv"
    /\ p_call.inner_form = "83"
    /\ p_call.outer_form = "82"
    /\ Len(p_call.cert) = 300
    /\ p_result.certificate = <<p_call.cert>>

(***************************************************************************)
(* Properties of the transport (checked under SpecTransport).              *)
(***************************************************************************)

\* C20: send_hid writes a report iff |d| <= 64: then exactly one report of 64
\* octets, d followed by zeros; for |d| > 64 it fails with the
\* packet-too-large error and writes nothing.
C20_SendHidPads ==
    t_call.op = "send_hid" =>
        LET d == t_call.arg
        IN  /\ Len(d) <= 64 =>
                /\ Len(t_io) = 1
                /\ Len(t_io[1]) = 64
                /\ \A k \in 1..64 : t_io[1][k] = IF k <= Len(d) THEN d[k] ELSE 0
                /\ t_result.err # "PacketTooLarge"
            /\ Len(d) > 64 =>
                /\ t_io = <<>>
                /\ ~t_result.ok
                /\ t_result.err = "PacketTooLarge"

C20_Witness ==
    /\ t_call.op = "send_hid"
    /\ Len(t_call.arg) = 3
    /\ t_result.ok
    /\ Len(t_io) = 1

\* C21: transmit_apdu submits to the card exactly the input octets, once,
\* when |apdu| >= 4, and submits nothing and fails when |apdu| < 4; every
\* successful result has at least 2 octets, and a card response of fewer than
\* 2 octets is an error.
C21_TransmitApdu ==
    t_call.op = "transmit_apdu" =>
        /\ Len(t_call.arg) >= 4 => t_io = <<t_call.arg>>
        /\ Len(t_call.arg) < 4 =>
              /\ t_io = <<>>
              /\ ~t_result.ok
              /\ t_result.err = "ApduTooShort"
        /\ t_result.ok => Len(t_result.value) >= 2
        /\ (t_io # <<>> /\ t_call.reply.card_ok /\ Len(t_call.reply.response) < 2) =>
              /\ ~t_result.ok
              /\ t_result.err = "ResponseTooShort"
        /\ (t_io # <<>> /\ t_call.reply.card_ok /\ Len(t_call.reply.response) >= 2) =>
              /\ t_result.ok
              /\ t_result.value = t_call.reply.response

C21_Witness ==
    /\ t_call.op = "transmit_apdu"
    /\ Len(t_call.arg) = 4
    /\ t_io = <<t_call.arg>>
    /\ t_result.ok
    /\ Len(t_result.value) = 2

\* An element of a request array that is not an integer in 0..255.
NotAnOctet(v) == ~(v.t = "int" /\ v.val \in 0..U8_MAX)

\* C34: sendHid and transmitApdu reject with INVALID_PARAMS, without touching
\* the device, every data/apdu array with an element that is not an integer
\* in 0..255; an accepted array reaches the transport with every element
\* unchanged.
C34_OctetsValidated ==
    (t_call.op \in {"handle_send_hid", "handle_transmit_apdu"}
        /\ t_call.params.device_id /\ t_call.params.data.some) =>
        LET array == t_call.arg
        IN  /\ (\E k \in 1..Len(array) : NotAnOctet(array[k])) =>
                  (t_result.err = "INVALID_PARAMS" /\ t_io = <<>>)
            /\ t_io # <<>> =>
                  \A k \in 1..Len(array) : t_io[1][k] = array[k].val

(***************************************************************************)
(* Properties of list_devices (checked under SpecList).                    *)
(***************************************************************************)
Listed == l_call.op = "list_devices"

PathsOf(devs) == {devs[k].path : k \in 1..Len(devs)}

\* C22: the ids in the result of one list_devices call are pairwise
\* distinct, whatever HID interfaces and readers there are, also when a
\* reader is dropped because its path was seen as a HID path.
C22_IdsDistinct ==
    Listed =>
        \A i, j \in 1..Len(l_result.devices) :
            i # j => l_result.devices[i].id # l_result.devices[j].id

\* A reader was dropped by the path test and two HID devices and one reader
\* are listed.
C22_Witness ==
    /\ Listed
    /\ l_call.api_ok /\ l_call.ctx_ok /\ l_call.readers_ok
    /\ l_call.hid = {1, 2}
    /\ l_call.ccid = {1, 2}
    /\ Len(l_result.devices) = 3

\* C23: list_devices never fails; when HID enumeration fails the result is
\* every matching reader, and when the PC/SC context or the reader list
\* fails the result is every matching HID device.
C23_Lenient ==
    Listed =>
        /\ l_result.ok
        /\ (~l_call.api_ok /\ l_call.ctx_ok /\ l_call.readers_ok) =>
              /\ PathsOf(l_result.devices) = {ReaderName(j) : j \in l_call.ccid}
              /\ Len(l_result.devices) = Cardinality(l_call.ccid)
              /\ \A k \in 1..Len(l_result.devices) :
                    l_result.devices[k].device_type = "Ccid"
        /\ (l_call.api_ok /\ (~l_call.ctx_ok \/ ~l_call.readers_ok)) =>
              /\ PathsOf(l_result.devices) = {HidPath(i) : i \in l_call.hid}
              /\ Len(l_result.devices) = Cardinality(l_call.hid)
              /\ \A k \in 1..Len(l_result.devices) :
                    l_result.devices[k].device_type = "Hid"

\* The HID stack is down with two interfaces plugged in, and both readers
\* are returned.
C23_Witness ==
    /\ Listed
    /\ ~l_call.api_ok /\ l_call.ctx_ok /\ l_call.readers_ok
    /\ l_call.hid = {1, 2}
    /\ l_call.ccid = {1, 2}
    /\ Len(l_result.devices) = 2

(***************************************************************************)
(* Properties of detect_protocols (checked under SpecDetect).              *)
(***************************************************************************)
Detected == d_call.op = "detect_protocols"

\* The exchange x of a HID probe returned an error: no HID handle is open
\* under the id, or the write or the read failed or timed out.
HidProbeFails(x) ==
    \/ KindOf(d_call.table, d_call.id) # "Hid"
    \/ ~x.send_ok
    \/ ~x.read_ok
    \/ Len(x.bytes) = 0

\* The exchange of a smart-card probe returned an error: no CCID card is
\* open under the id, the transmit failed or no status word came back.
CardProbeFails(a) ==
    \/ KindOf(d_call.table, d_call.id) # "Ccid"
    \/ ~a.card_ok
    \/ Len(a.response) < 2

C40_OneKindOfCapability ==
    Detected =>
        /\ (d_result.fido2 \/ d_result.u2f) =>
              ~(d_result.piv \/ d_result.openpgp \/ d_result.ndef)
        /\ KindOf(d_call.table, d_call.id) = NoKind =>
              /\ ~d_result.fido2 /\ ~d_result.u2f /\ ~d_result.otp
              /\ ~d_result.piv /\ ~d_result.openpgp /\ ~d_result.ndef

\* A HID handle is open, both HID capabilities are found, and a SELECT would
\* have been answered 90 00 had it reached a card.
C40_Witness ==
    /\ Detected
    /\ KindOf(d_call.table, d_call.id) = "Hid"
    /\ d_result.fido2
    /\ d_result.u2f
    /\ select_succeeded([ok |-> TRUE, response |-> d_call.io.piv.response])
    /\ ~d_result.piv

(***************************************************************************)
(* Properties of the message loop (checked under SpecMain).                *)
(***************************************************************************)
\* The turn processed a request whose operation failed.
OperationFailed ==
    /\ m_last.step # "none"
    /\ m_last.stdin = "request"
    /\ \/ m_last.outcome = "err" /\ m_last.request.params
       \/ ~m_last.request.params /\ m_last.request.command \in {"openDevice", "fido2SetPin"}
       \/ m_last.request.command = "formatDisk"

\* C25: the loop keeps serving after any operation error: every failing
\* operation is answered by an error response with the request's id, a code
\* and a message; and the loop ends only when reading stdin reaches EOF.
C25_LoopSurvivesErrors ==
    /\ OperationFailed =>
          /\ m_state = "loop"
          /\ Len(m_out) = 1
          /\ m_out[1].id = m_last.request.id
          /\ m_out[1].status = "error"
          /\ m_out[1].code # ""
          /\ m_out[1].message # ""
    /\ m_state # "loop" => m_last.stdin = "eof"

(***************************************************************************)
(* Properties of chained exchanges of concurrent callers (under SpecChain). *)
(***************************************************************************)
\* C33: with concurrent callers on one open CCID device the APDUs of a
\* chained exchange are consecutive: what follows a 61 XX reply on the card
\* is the GET RESPONSE of the same caller, not an APDU of another operation
\* and not a close of the device.
C33_ChainUninterrupted ==
    \A i \in 1..(Len(g_wire) - 1) :
        g_wire[i].sw = "61XX" =>
            /\ g_wire[i + 1].ev = "apdu"
            /\ g_wire[i + 1].who = g_wire[i].who
            /\ g_wire[i + 1].ins = "GET_RESPONSE"

(***************************************************************************)
(* Properties of the GET RESPONSE loop (under SpecLoop).                   *)
(***************************************************************************)
Looping == \E t \in Threads : g_pc[t].at = "more"

\* C37: the GET RESPONSE loop always terminates: whatever the card answers, a
\* call that entered the loop leaves it after finitely many GET RESPONSE
\* APDUs.
C37_LoopTerminates == Looping ~> ~Looping

(***************************************************************************)
(* Properties of the DeviceManager's mutexes (under SpecLocks).            *)
(***************************************************************************)
\* A caller inside lock() of a mutex someone holds.
Blocked(t) ==
    /\ g_pc[t].at \in {"wait_table", "wait_context"}
    /\ g_locks[g_pc[t].lock] # "free"

Holds(t, l) == g_locks[l] = t

\* C39: no interleaving of open_device, close_device, with_hid_device and
\* with_ccid_card calls deadlocks: the table lock is taken before the HID or
\* PC/SC context lock and never while holding one of them, and a caller that
\* waits for a mutex waits for a caller that is not itself waiting.
C39_NoDeadlock ==
    \A t \in Threads :
        /\ \A l \in {"hid_api", "pcsc_context"} : Holds(t, l) => Holds(t, "open_devices")
        /\ g_pc[t].at = "wait_table" => \A l \in Mutexes : ~Holds(t, l)
        /\ Blocked(t) => ~Blocked(g_locks[g_pc[t].lock])

\* One caller is in open_device with both mutexes, the other waits for the
\* table.
C39_Witness ==
    \E t \in Threads, u \in Threads :
        /\ g_pc[t].at = "context"
        /\ Holds(t, "open_devices") /\ Holds(t, "hid_api")
        /\ Blocked(u)
        /\ g_pc[u].op = "with_hid_device"

====
